---- MODULE Spec2Model ----
(***************************************************************************)
(* A model of the wordle-solver crate: the feedback computation            *)
(* (Correctness::compute, Guess::matches), the game loop (Wordle::play),   *)
(* the guessing strategies (Unoptimised, Allocs, Weight, Cutoff, Cache)    *)
(* and the simulation driver (main.rs play).                               *)
(*                                                                         *)
(* Words are 5-tuples of one-letter strings; masks are 5-tuples of         *)
(* "Correct" / "Misplaced" / "Wrong".  Positions are 1-based here and      *)
(* 0-based in the source.                                                  *)
(***************************************************************************)
EXTENDS Integers, Sequences, FiniteSets, TLC

\* ------------------------------------------------------------------------
\* Bounds of the model
\* ------------------------------------------------------------------------

\* Size of the alphabet the pure-function specification draws its words from.
NumLetters == 3

\* ------------------------------------------------------------------------
\* Program constants
\* ------------------------------------------------------------------------

\* Words and masks have five positions (assert_eq!(answer.len(), 5)).
WordLen == 5

Correct == "Correct"
Misplaced == "Misplaced"
Wrong == "Wrong"

Correctness == {Correct, Misplaced, Wrong}

Positions == 1..WordLen

AlphabetSeq == <<"a", "b", "c", "d", "e", "f">>

Alphabet == {AlphabetSeq[k] : k \in 1..NumLetters}

\* every 5-letter word over the bounded alphabet
Words == [Positions -> Alphabet]

Masks == [Positions -> Correctness]

Min(S) == CHOOSE x \in S : \A y \in S : x <= y

\* ------------------------------------------------------------------------
\* Correctness::compute  (src/src/lib.rs:59-80)
\* ------------------------------------------------------------------------

\* MisplacedPosition with the test answer_bytes[j] == a: only positions where
\* answer and guess agree can be taken
MisplacedPositionOnlyGreen(answer, guess, a, c) ==
  LET J == {j \in Positions : a = guess[j] /\ answer[j] = a /\ c[j] = Wrong}
  IN IF J = {} THEN 0 ELSE Min(J)

\* MisplacedPosition without the test answer_bytes[j] != a: a guess position
\* that is Correct for its own letter can be taken
MisplacedPositionAnyGreen(answer, guess, a, c) ==
  LET J == {j \in Positions : a = guess[j] /\ c[j] = Wrong}
  IN IF J = {} THEN 0 ELSE Min(J)

\* guess_bytes.iter().enumerate().position(|(j, &g)| a == g && answer_bytes[j] != a
\*                                                   && c[j] == Correctness::Wrong)
\* 0 stands for None.
MisplacedPosition(answer, guess, a, c) ==
  LET J == {j \in Positions : a = guess[j] /\ answer[j] # a /\ c[j] = Wrong}
  IN IF J = {} THEN 0 ELSE Min(J)

\* ComputeStep of the naive marking: position i is Misplaced when its guess
\* letter occurs anywhere in the answer, taken or not
ComputeStepNaive(answer, guess, i, c) ==
  IF answer[i] = guess[i]
  THEN [c EXCEPT ![i] = Correct]
  ELSE IF \E j \in Positions : answer[j] = guess[i]
       THEN [c EXCEPT ![i] = Misplaced]
       ELSE c

\* ComputeStep comparing the answer's letter with guess_bytes[0] instead of
\* guess_bytes[i]
ComputeStepFirstByte(answer, guess, i, c) ==
  IF answer[i] = guess[1]
  THEN [c EXCEPT ![i] = Correct]
  ELSE LET j == MisplacedPosition(answer, guess, answer[i], c)
       IN IF j = 0 THEN c ELSE [c EXCEPT ![j] = Misplaced]

\* ComputeStep marking every free guess position that holds the answer's
\* letter instead of the first one
ComputeStepMarkAll(answer, guess, i, c) ==
  IF answer[i] = guess[i]
  THEN [c EXCEPT ![i] = Correct]
  ELSE [j \in Positions |->
          IF answer[i] = guess[j] /\ answer[j] # answer[i] /\ c[j] = Wrong
          THEN Misplaced ELSE c[j]]

\* one iteration of the loop over the answer's positions
ComputeStep(answer, guess, i, c) ==
  IF answer[i] = guess[i]
  THEN [c EXCEPT ![i] = Correct]
  ELSE LET j == MisplacedPosition(answer, guess, answer[i], c)
       IN IF j # 0 THEN [c EXCEPT ![j] = Misplaced] ELSE c

RECURSIVE ComputeLoop(_, _, _, _)
ComputeLoop(answer, guess, i, c) ==
  IF i > WordLen THEN c
  ELSE ComputeLoop(answer, guess, i + 1, ComputeStep(answer, guess, i, c))

compute(answer, guess) ==
  ComputeLoop(answer, guess, 1, [k \in Positions |-> Wrong])

\* ------------------------------------------------------------------------
\* Correctness::patterns, enumerate_mask, Guess::matches
\* ------------------------------------------------------------------------

\* the arrays [Self::Correct, Self::Misplaced, Self::Wrong] of iproduct!
PatternSymbols == <<Correct, Misplaced, Wrong>>

Pow3(k) == IF k = 0 THEN 1 ELSE IF k = 1 THEN 3 ELSE IF k = 2 THEN 9
           ELSE IF k = 3 THEN 27 ELSE IF k = 4 THEN 81 ELSE 243

\* the n-th item (0-based) of the cartesian product: the first slot varies
\* slowest, the last one fastest
PatternAt(n) ==
  [k \in Positions |-> PatternSymbols[((n \div Pow3(WordLen - k)) % 3) + 1]]

\* Correctness::patterns(): the 3^5 masks in iproduct! order
CorrectnessPatterns == [n \in 1..Pow3(WordLen) |-> PatternAt(n - 1)]

\* MAX_MASK_ENUM: the number of slots of the running-totals array
MAX_MASK_ENUM == Pow3(WordLen)

SymbolDigit(s) == IF s = Correct THEN 0 ELSE IF s = Misplaced THEN 1 ELSE 2

RECURSIVE EnumerateFold(_, _, _)
EnumerateFold(mask, k, acc) ==
  IF k > WordLen THEN acc
  ELSE EnumerateFold(mask, k + 1, acc * 3 + SymbolDigit(mask[k]))

\* enumerate_mask: the radix-3 index of a mask, in [0, 3^5)
enumerate_mask(mask) == EnumerateFold(mask, 1, 0)

\* a history entry: Guess { word, mask }
Guess(word, mask) == [word |-> word, mask |-> mask]

\* matches with the arguments of compute exchanged: the recorded guess in the
\* answer role
matchesSwapped(g, word) == compute(g.word, word) = g.mask

\* Guess::matches(&self, word)
matches(g, word) == compute(word, g.word) = g.mask

\* ------------------------------------------------------------------------
\* The dictionary and the answers (dictionary.txt, answers.txt)
\* ------------------------------------------------------------------------

tares == <<"t", "a", "r", "e", "s">>
rates == <<"r", "a", "t", "e", "s">>
holly == <<"h", "o", "l", "l", "y">>
hobby == <<"h", "o", "b", "b", "y">>
lobby == <<"l", "o", "b", "b", "y">>
bobby == <<"b", "o", "b", "b", "y">>
booby == <<"b", "o", "o", "b", "y">>
daily == <<"d", "a", "i", "l", "y">>
dolly == <<"d", "o", "l", "l", "y">>
hilly == <<"h", "i", "l", "l", "y">>
roily == <<"r", "o", "i", "l", "y">>
bully == <<"b", "u", "l", "l", "y">>
zzzzz == <<"z", "z", "z", "z", "z">>

Line(word, count) == [word |-> word, count |-> count]

\* lines "word count" of the dictionary file, in file order
AllLines ==
  << Line(tares, 7), Line(rates, 5), Line(holly, 4), Line(hobby, 2),
     Line(lobby, 6), Line(bobby, 2), Line(booby, 3), Line(roily, 1),
     Line(daily, 1), Line(dolly, 1), Line(hilly, 1) >>

\* number of dictionary lines the model loads
NumWords == 8

\* DICTIONARY.lines(), each split into (word, count)
DICTIONARY == SubSeq(AllLines, 1, NumWords)

\* the words an answers file may hold: dictionary words and one word the
\* dictionary does not have
AnswerPool == {holly, bobby, booby, lobby, bully}

\* the longest answers file the model plays
NumGames == 2

\* the answers files: GAMES.split_whitespace()
GameLists == UNION {[1..n -> AnswerPool] : n \in 1..NumGames}

\* Wordle::new: the set of the dictionary's words
WordleDictionary == {DICTIONARY[k].word : k \in 1..Len(DICTIONARY)}

\* another line of the dictionary as the hardcoded first guess
SeedOther == rates

\* the hardcoded first guess
Seed == tares

\* for i in 1..=32
MaxTurns == 32

\* s[lo] + ... + s[hi], by halves
RECURSIVE SumRange(_, _, _)
SumRange(s, lo, hi) ==
  IF lo > hi THEN 0
  ELSE IF lo = hi THEN s[lo]
  ELSE LET mid == (lo + hi) \div 2
       IN SumRange(s, lo, mid) + SumRange(s, mid + 1, hi)

\* the sum of a sequence of numbers
SeqSum(s) == SumRange(s, 1, Len(s))

\* ------------------------------------------------------------------------
\* Real arithmetic in fixed point
\*
\* The strategies compare f64 scores.  The model keeps the same formulas in
\* integers of 32 bits, in units of 10^-6, and keeps with every score a bound
\* of the distance between that integer and the f64 value it stands for.
\* Two scores that are closer than their bounds add up to are not told apart:
\* a comparison of them has both outcomes (BetterGoodness, LowerEScore).
\* ------------------------------------------------------------------------

\* 1.0 in units of 10^-6
Micro == 1000000

RECURSIVE Pow2(_)
Pow2(k) == IF k = 0 THEN 1 ELSE 2 * Pow2(k - 1)

\* a * b for a, b >= 0 in units of 10^-6: the product is taken in parts that
\* fit 32 bits; the result is at most 2 units below the exact product
MulMicro(a, b) ==
  LET a1 == a \div 1000
      a0 == a % 1000
      b1 == b \div 1000
      b0 == b % 1000
  IN a1 * b1 + (a1 * b0 + a0 * b1) \div 1000 + (a0 * b0) \div Micro

\* (t * l) \div d and (t * l) % d for 0 <= t <= d < 10^6 and 0 <= l, by long
\* division in parts that fit 32 bits
MulDivRem(t, l, d) ==
  LET a == t * (l \div 1000)
      b == (a % d) * 1000 + t * (l % 1000)
  IN [q |-> (a \div d) * 1000 + b \div d, r |-> b % d]

\* round(ln(1 + j / 64) * 10^6) for j = 0..63
LnTable ==
  << 0, 15504, 30772, 45810, 60625, 75223, 89612, 103797,
     117783, 131576, 145182, 158605, 171850, 184922, 197826, 210565,
     223144, 235566, 247836, 259958, 271934, 283768, 295464, 307025,
     318454, 329753, 340927, 351976, 362905, 373716, 384412, 394994,
     405465, 415828, 426084, 436237, 446287, 456237, 466090, 475846,
     485508, 495077, 504556, 513946, 523248, 532465, 541597, 550647,
     559616, 568505, 577315, 586049, 594707, 603291, 611802, 620240,
     628609, 636907, 645138, 653301, 661398, 669431, 677399, 685304 >>

\* round(ln(2) * 10^6)
LnTwo == 693147

\* round(log2(e) * 10^6)
Log2E == 1442695

\* ln(m) for 1.0 <= m < 2.0: the table value of the 64th below m and the
\* series r - r^2/2 + r^3/3 of ln(1 + r) for the rest, r < 1/64
LnMantissa(m) ==
  LET j == ((m - Micro) * 64) \div Micro
      r == (m * 64) \div (64 + j) - Micro
  IN LnTable[j + 1] + r - (r * r) \div (2 * Micro)
       + (((r * r) \div Micro) * r) \div (3 * Micro)

\* f64::ln of y >= 1.0, in units of 10^-6: at most LnErr from the real value
RECURSIVE Ln(_)
Ln(y) == IF y >= 2 * Micro THEN LnTwo + Ln(y \div 2) ELSE LnMantissa(y)

LnErr == 4

\* round(log2(n) * 10^6) for n = 1..64
Log2Table ==
  << 0, 1000000, 1584963, 2000000, 2321928, 2584963, 2807355, 3000000,
     3169925, 3321928, 3459432, 3584963, 3700440, 3807355, 3906891, 4000000,
     4087463, 4169925, 4247928, 4321928, 4392317, 4459432, 4523562, 4584963,
     4643856, 4700440, 4754888, 4807355, 4857981, 4906891, 4954196, 5000000,
     5044394, 5087463, 5129283, 5169925, 5209453, 5247928, 5285402, 5321928,
     5357552, 5392317, 5426265, 5459432, 5491853, 5523562, 5554589, 5584963,
     5614710, 5643856, 5672425, 5700440, 5727920, 5754888, 5781360, 5807355,
     5832890, 5857981, 5882643, 5906891, 5930737, 5954196, 5977280, 6000000 >>

\* log2 of v >= 1.0, in units of 10^-6
RECURSIVE Log2Micro(_)
Log2Micro(v) ==
  IF v >= 2 * Micro THEN Micro + Log2Micro(v \div 2)
  ELSE MulMicro(LnMantissa(v), Log2E)

\* f64::log2 of a positive integer n, in 10^-6 bit: for an odd n up to 64
\* the rounded value of the table, for an even n one more than the value of
\* its half, for a larger odd n below 2^17 the logarithm of n / 64 =
\* n * 15625 * 10^-6, plus 6, and for an odd n from 2^17 on one more than the
\* value of (n - 1) / 2
RECURSIVE Log2(_)
Log2(n) ==
  IF n % 2 = 0 THEN Micro + Log2(n \div 2)
  ELSE IF n <= 64 THEN Log2Table[n]
  ELSE IF n < 131072 THEN 6 * Micro + Log2Micro(n * 15625)
  ELSE Micro + Log2((n - 1) \div 2)

\* the odd part of n >= 1
RECURSIVE OddPart(_)
OddPart(n) == IF n % 2 = 0 THEN OddPart(n \div 2) ELSE n

\* a bound of |Log2(n) - log2(n) * 10^6|: the table is rounded to the
\* nearest unit, the series is within 6 units, and the bits dropped from an
\* n from 2^17 on are less than 2^-16 of it, 23 units
Log2Err(n) ==
  IF OddPart(n) <= 64 THEN 1 ELSE IF OddPart(n) < 131072 THEN 6 ELSE 29

\* the term p * p.log2() itself, without the negation of the sum
PLog2P(total, whole) == MulDivRem(total, Log2(total) - Log2(whole), whole)

\* -(p * p.log2()) for p = total / whole in 10^-6 bit, the term one pattern
\* adds to the negated entropy sum: quotient and remainder of
\* total * (log2(whole) - log2(total)) by whole
NegPLog2P(total, whole) == MulDivRem(total, Log2(whole) - Log2(total), whole)

\* -sum of p * p.log2() for p = total / whole over the totals that are not 0,
\* in 10^-6 bit: the quotients and the remainders of the terms are summed
\* apart and the remainders divided by whole once, so that the order of the
\* terms does not change the value
Entropy(totals, whole) ==
  LET terms == <<>> \o [n \in 1..Len(totals) |->
                          IF totals[n] = 0 THEN [q |-> 0, r |-> 0]
                          ELSE NegPLog2P(totals[n], whole)]
  IN IF whole = 0 THEN 0
     ELSE SeqSum([n \in 1..Len(terms) |-> terms[n].q])
            + SeqSum([n \in 1..Len(terms) |-> terms[n].r]) \div whole

\* a bound of the distance of Entropy(totals, whole) from the f64 sum: the
\* terms weigh the bounds of the logarithms by p, which add up to 1, and one
\* unit is for the division; none where every term is 1.0 * 0.0
EntropyErr(totals, whole) ==
  LET errs == {Log2Err(totals[n]) : n \in {n \in 1..Len(totals) : totals[n] # 0}}
  IN IF \A n \in 1..Len(totals) : totals[n] \in {0, whole} THEN 0
     ELSE Log2Err(whole) + 1 + (CHOOSE e \in errs : \A f \in errs : f <= e)

\* est_steps_left(entropy) = (entropy * 3.870 + 3.679).ln(); the argument in
\* 10^-6 bit, the result in units of 10^-6
est_steps_left(entropy) == Ln((entropy * 387) \div 100 + 3679000)

\* 1.0 as a weight of Cache: the weights are in units of 1/1024.  A weight of
\* WeightOne stands for the f64 value 1.0 and for nothing else; any other
\* weight is at most one unit from the f64 value it stands for.
WeightOne == 1024

\* 10^6 * exp(-f / 10^6) for 0 <= f < ln 2, by the series of exp to order n
RECURSIVE ExpSeries(_, _, _)
ExpSeries(f, n, e) ==
  IF n = 0 THEN e ELSE ExpSeries(f, n - 1, Micro - MulMicro(f, e) \div n)

\* (-u).exp() for u >= 0, both in units of 10^-6
ExpNeg(u) ==
  IF u >= 20 * Micro THEN 0
  ELSE ExpSeries(u % LnTwo, 12, Micro) \div Pow2(u \div LnTwo)

\* the largest value of K * p the model tells from a larger one, in units
\* of 10^-6
ScaledCap == 200000000

\* K * count / sum = 3 * 10^13 * count / sum in units of 10^-6, capped at
\* ScaledCap: the quotient q of 3 * count by sum and `digits` more decimal
\* digits of it by long division, for sum < 2^31 / 10
RECURSIVE ScaledRatio(_, _, _, _)
ScaledRatio(q, r, sum, digits) ==
  IF digits = 0 \/ q >= ScaledCap THEN (IF q >= ScaledCap THEN ScaledCap ELSE q)
  ELSE ScaledRatio(q * 10 + (r * 10) \div sum, (r * 10) % sum, sum, digits - 1)

\* K * X0 = 3 * 10^7 * 4.97 * 10^-6 in units of 10^-6
SigmoidKX0 == 149100000

\* 53 * ln(2) in units of 10^-6: for z above it (-z).exp() is below 2^-53,
\* 1.0 + (-z).exp() is 1.0 and the quotient is 1.0
SigmoidOne == 36736801

\* sigmoid(p) = L / (1.0 + (-K * (p - X0)).exp()) for p = count / sum, with
\* L = 1, K = 3 * 10^7 and X0 = 4.97 * 10^-6, in units of 1 / WeightOne and
\* rounded to the nearest unit; a value below 1.0 is not rounded to WeightOne
sigmoid(count, sum) ==
  LET z == ScaledRatio((3 * count) \div sum, (3 * count) % sum, sum, 13)
             - SigmoidKX0
      e == ExpNeg(IF z >= 0 THEN z ELSE -z)
      w == IF z >= 0
           THEN (WeightOne * Micro + (Micro + e) \div 2) \div (Micro + e)
           ELSE (WeightOne * e + (Micro + e) \div 2) \div (Micro + e)
  IN IF z >= SigmoidOne THEN WeightOne
     ELSE IF w >= WeightOne THEN WeightOne - 1 ELSE w

\* ------------------------------------------------------------------------
\* The lexicon of a strategy
\* ------------------------------------------------------------------------

\* an entry of `remaining`: (word, count) or, in Cache, (word, p, idx)
Entry(word, weight, idx) == [word |-> word, weight |-> weight, idx |-> idx]

\* Vec::from_iter over the lines: one entry per line, in file order
FromLines(lines) ==
  [k \in 1..Len(lines) |-> Entry(lines[k].word, lines[k].count, 0)]

\* HashMap::insert(word, count): the count of a word that is a key already
\* is replaced, a new word gets an entry
HashMapInsert(map, line) ==
  IF \E k \in 1..Len(map) : map[k].word = line.word
  THEN [k \in 1..Len(map) |->
          IF map[k].word = line.word THEN Entry(line.word, line.count, 0)
          ELSE map[k]]
  ELSE Append(map, Entry(line.word, line.count, 0))

\* HashMap::from_iter over the lines: one entry per word, with the count of
\* the last line of the word.  The iteration order of a HashMap is not
\* modelled by the order of this sequence, see HashMapLoop.
RECURSIVE HashMapFromIter(_)
HashMapFromIter(lines) ==
  IF lines = <<>> THEN <<>>
  ELSE HashMapInsert(HashMapFromIter(SubSeq(lines, 1, Len(lines) - 1)),
                     lines[Len(lines)])

\* the number of places of s that hold x
Occurrences(s, x) == Cardinality({k \in 1..Len(s) : s[k] = x})

\* words.sort_unstable_by_key(|&(_, count)| Reverse(count)): the lines by
\* descending count.  The sort is not stable: the order it leaves lines of
\* equal count in is not specified, and every order of the lines with
\* non-increasing counts is one it may leave.
SortByCountDesc(lines) ==
  {s \in [1..Len(lines) -> {lines[k] : k \in 1..Len(lines)}] :
     /\ \A k \in 1..Len(lines) :
          Occurrences(s, lines[k]) = Occurrences(lines, lines[k])
     /\ \A k \in 1..(Len(lines) - 1) : s[k].count >= s[k + 1].count}

\* the sequences that have the line at one more place of `sorted`, a place
\* that leaves the counts non-increasing
InsertByCount(sorted, line) ==
  {SubSeq(sorted, 1, p) \o <<line>> \o SubSeq(sorted, p + 1, Len(sorted)) :
     p \in {p \in 0..Len(sorted) :
              /\ \A k \in 1..p : sorted[k].count >= line.count
              /\ \A k \in (p + 1)..Len(sorted) : sorted[k].count <= line.count}}

\* the elements of SortByCountDesc(lines), built line by line
RECURSIVE SortOutcomes(_)
SortOutcomes(lines) ==
  IF lines = <<>> THEN {<<>>}
  ELSE UNION {InsertByCount(sorted, lines[Len(lines)]) :
                sorted \in SortOutcomes(SubSeq(lines, 1, Len(lines) - 1))}

CountSum(lines) == SeqSum([k \in 1..Len(lines) |-> lines[k].count])

\* INITIAL of Weight: the lines in file order
WeightInitial == FromLines(DICTIONARY)

\* INITIAL of Cutoff: the lines as the sort left them
CutoffInitial(words) == FromLines(words)

\* CacheInitial with enumerate() before the sort: idx is the line number in
\* the file `lines`, not the rank by count
CacheInitialFileOrder(lines, words) ==
  LET sum == CountSum(lines)
      line(w) == CHOOSE n \in 1..Len(lines) : lines[n].word = w
  IN [k \in 1..Len(words) |->
        Entry(words[k].word, sigmoid(words[k].count, sum), line(words[k].word) - 1)]

\* INITIAL of Cache: the lines as the sort left them, each with its sigmoid
\* weight and its rank (0-based)
CacheInitial(lines, words) ==
  LET sum == CountSum(lines)
  IN [k \in 1..Len(words) |->
        Entry(words[k].word, sigmoid(words[k].count, sum), k - 1)]

\* a static INITIAL that is not set
NoInitial == <<>>

\* INITIAL.get_or_init(..) in the new() of an implementation, for the
\* dictionary file `lines`: the value the cell holds or, if it is not set,
\* the values its initialiser can give it.  Unoptimised and Allocs have no
\* such cell.
InitialOrInit(impl, cell, lines) ==
  IF cell # NoInitial THEN {cell}
  ELSE IF impl = "Cache"
  THEN {CacheInitial(lines, words) : words \in SortOutcomes(lines)}
  ELSE IF impl = "Cutoff"
  THEN {CutoffInitial(words) : words \in SortOutcomes(lines)}
  ELSE IF impl = "Weight" THEN {FromLines(lines)}
  ELSE {NoInitial}

\* ------------------------------------------------------------------------
\* Pieces the strategies share
\* ------------------------------------------------------------------------

\* Retain keeping the entries whose word does not match
RetainInverted(remaining, last) ==
  SelectSeq(remaining, LAMBDA e : ~matches(last, e.word))

\* remaining.retain(|(word, _)| last.matches(word)), and the filter + collect
\* of the borrowed case
Retain(remaining, last) ==
  SelectSeq(remaining, LAMBDA e : matches(last, e.word))

\* self.remaining.iter().map(|(_, c)| c).sum()
remaining_count(remaining) ==
  SeqSum([k \in 1..Len(remaining) |-> remaining[k].weight])

\* compute(candidate, word) for every candidate of `remaining`: the mask that
\* Guess { word, mask: pattern }.matches(candidate) compares with pattern
MaskRow(remaining, word) ==
  <<>> \o [k \in 1..Len(remaining) |-> compute(remaining[k].word, word)]

\* the inner loop over the candidates: the total weight of the candidates c
\* with g.matches(c), for g = Guess { word, mask: pattern }; row is
\* MaskRow(remaining, word)
in_pattern_total(remaining, row, pattern) ==
  LET matching == {k \in 1..Len(remaining) : row[k] = pattern}
  IN IF matching = {} THEN 0
     ELSE SeqSum([k \in 1..Len(remaining) |->
                    IF k \in matching THEN remaining[k].weight ELSE 0])

\* the loop over the patterns: in_pattern_total of every pattern of pats, in
\* the order of pats, without the patterns it is 0 for (`continue`)
PatternTotals(remaining, word, pats) ==
  LET row == MaskRow(remaining, word)
  IN SelectSeq(<<>> \o [n \in 1..Len(pats) |->
                          in_pattern_total(remaining, row, pats[n])],
               LAMBDA total : total # 0)

\* sum += p * p.log2() for p = total / whole over the totals, negated: -sum
\* in 10^-6 bit
NegSum(totals, whole) == Entropy(totals, whole)

\* a bound of the distance of NegSum(totals, whole) from the f64 value -sum
NegSumErr(totals, whole) == EntropyErr(totals, whole)

\* Candidate { word, goodness } and Option<Candidate>.  goodness is the
\* integer that stands for the f64 value, err a bound of its distance from
\* that value, and terms what the f64 value was computed from: the weight of
\* the word and the nonzero totals in the order they were added.
Candidate(word, goodness, err, terms) ==
  [some |-> TRUE, word |-> word, goodness |-> goodness, err |-> err,
   terms |-> terms]

NoCandidate ==
  [some |-> FALSE, word |-> Seed, goodness |-> 0, err |-> 0, terms |-> <<>>]

\* the f64 values of two candidates of one call are equal: they were
\* computed from the same terms in the same order, or both are exact
SameValue(a, b) ==
  \/ a.terms = b.terms
  \/ a.err = 0 /\ b.err = 0 /\ a.goodness = b.goodness

\* the f64 value of a is greater than the one of b: by more than the bounds
\* of the two leave open
Greater(a, b) == ~SameValue(a, b) /\ a.goodness - b.goodness > a.err + b.err

\* no candidate of `seen`, the candidates scored before next, has a value
\* greater than or equal to the one of next: the value of best, which is not
\* below any of theirs, can be below the one of next
NotBeaten(seen, next) ==
  \A m \in 1..Len(seen) : ~Greater(seen[m], next) /\ ~SameValue(seen[m], next)

\* the values of best after `if next > c { best = Some(next) }` for best =
\* Some(c): one where the comparison is decided, either where it is not
Replace(c, seen, next) ==
  IF Greater(next, c) THEN {next}
  ELSE IF NotBeaten(seen, next) THEN {c, next}
  ELSE {c}

\* BetterGoodness without the branch that fills an empty best: best stays None
BetterGoodnessNoFirst(best, seen, next) ==
  IF best.some THEN Replace(best, seen, next) ELSE {best}

\* BetterGoodness with the test goodness >= c.goodness: a tie replaces the best
BetterGoodnessOnTie(best, seen, next) ==
  IF best.some
  THEN IF SameValue(next, best) THEN {next} ELSE Replace(best, seen, next)
  ELSE {next}

\* if let Some(c) = best { if goodness > c.goodness { best = Some(..) } }
\* else { best = Some(..) }: the values best can have afterwards, `seen` being
\* the candidates the loop has scored before
BetterGoodness(best, seen, next) ==
  IF best.some THEN Replace(best, seen, next) ELSE {next}

\* the state of a guesser and what one call of guess leaves: the word it
\* returns, or the panic that ends the call
Outcome(word, panic, remaining, owned, pats, patsOwned, table, ent, order) ==
  [word |-> word, panic |-> panic, remaining |-> remaining, owned |-> owned,
   patterns |-> pats, patternsOwned |-> patsOwned, computes |-> table,
   entropy |-> ent, order |-> order]

PanicNone == "none"
\* called `Option::unwrap()` on a `None` value
PanicUnwrapNone == "unwrap on None"
\* assert!(self.dictionary.contains(&*guess), ..)
PanicNotInDictionary == "guess not in dictionary"
\* assert!(!self.patterns.is_empty())
PanicPatternsEmpty == "patterns empty"

\* ------------------------------------------------------------------------
\* Unoptimised::guess and Allocs::guess
\* ------------------------------------------------------------------------

\* The order in which a HashMap iterates is the order of its buckets, which
\* the keys of its hasher fix: RandomState::new() draws them when the map is
\* built, and the program does not say which.  retain removes entries
\* where they are and leaves the others in their order.  Nothing reads the
\* order before the first loop `for (&word, _) in &self.remaining`, the one
\* of the first call with a non-empty history, so that the order is drawn
\* there, over the words the pruning of that call left: NoOrder stands for
\* the order no loop has read yet.
NoOrder == <<>>

\* every order of the words of the set `words`
RECURSIVE Orders(_)
Orders(words) ==
  IF words = {} THEN {<<>>}
  ELSE UNION {{<<w>> \o o : o \in Orders(words \ {w})} : w \in words}

\* the orders in which the map iterates after retain left it the entries of
\* `remaining`: the order it had, without the words removed
IterationOrder(order, remaining) ==
  LET words == {remaining[k].word : k \in 1..Len(remaining)}
  IN IF order = NoOrder THEN Orders(words)
     ELSE {SelectSeq(order, LAMBDA w : w \in words)}

\* goodness = -sum for the word, in 10^-6 bit: the candidate a round of the
\* loop has
EntropyCandidate(remaining, whole, word) ==
  LET totals == PatternTotals(remaining, word, CorrectnessPatterns)
  IN Candidate(word, NegSum(totals, whole), NegSumErr(totals, whole), totals)

\* the candidate the loop has for every entry of the map, entry by entry:
\* the goodness of a word is the same in whatever order the loop iterates
EntropyCandidates(remaining) ==
  <<>> \o [k \in 1..Len(remaining) |->
            EntropyCandidate(remaining, remaining_count(remaining),
                             remaining[k].word)]

\* for (&word, _) in &self.remaining, from the k-th word of the iteration
\* order on: best is the set of the values the variable best can have, seen
\* the candidates of the words before the k-th, cands the candidates of the
\* entries of remaining
RECURSIVE HashMapLoop(_, _, _, _, _, _)
HashMapLoop(remaining, cands, order, k, best, seen) ==
  IF k > Len(order) THEN best
  ELSE LET next == cands[CHOOSE j \in 1..Len(remaining) :
                           remaining[j].word = order[k]]
       IN HashMapLoop(remaining, cands, order, k + 1,
                      UNION {BetterGoodness(c, seen, next) : c \in best},
                      Append(seen, next))

\* Unoptimised::guess: the outcomes of the call, one for every order the map
\* can iterate in and every value best can have after the loop;
\* best.unwrap() panics on None
UnoptimisedGuess(self, history) ==
  LET pruned == IF history # <<>>
                THEN Retain(self.remaining, history[Len(history)])
                ELSE self.remaining
      outcomes(cands) ==
        UNION {{Outcome(c.word, IF c.some THEN PanicNone ELSE PanicUnwrapNone,
                        pruned, self.owned, self.patterns, self.patternsOwned,
                        self.computes, self.entropy, order)
                  : c \in HashMapLoop(pruned, cands, order, 1, {NoCandidate}, <<>>)}
                 : order \in IterationOrder(self.order, pruned)}
  IN IF history = <<>>
     THEN {Outcome(Seed, PanicNone, pruned, self.owned, self.patterns,
                   self.patternsOwned, self.computes, self.entropy, self.order)}
     ELSE UNION {outcomes(cands) : cands \in {EntropyCandidates(pruned)}}

\* Allocs::guess: the loop `for &word in self.remaining.keys()`, with the
\* same body
AllocsGuess(self, history) ==
  LET pruned == IF history # <<>>
                THEN Retain(self.remaining, history[Len(history)])
                ELSE self.remaining
      outcomes(cands) ==
        UNION {{Outcome(c.word, IF c.some THEN PanicNone ELSE PanicUnwrapNone,
                        pruned, self.owned, self.patterns, self.patternsOwned,
                        self.computes, self.entropy, order)
                  : c \in HashMapLoop(pruned, cands, order, 1, {NoCandidate}, <<>>)}
                 : order \in IterationOrder(self.order, pruned)}
  IN IF history = <<>>
     THEN {Outcome(Seed, PanicNone, pruned, self.owned, self.patterns,
                   self.patternsOwned, self.computes, self.entropy, self.order)}
     ELSE UNION {outcomes(cands) : cands \in {EntropyCandidates(pruned)}}

\* ------------------------------------------------------------------------
\* Weight::guess
\* ------------------------------------------------------------------------

\* goodness = p_word * -sum for p_word = count_out / whole, in 10^-6 bit: the
\* candidate the round of the loop has (a round has a remaining word, so
\* that whole is not 0).  The bound is the one of -sum, p_word being at most
\* 1, and one unit for the division.
WeightCandidate(word, count_out, totals, whole) ==
  LET err == NegSumErr(totals, whole)
  IN Candidate(word,
               IF whole = 0 THEN 0
               ELSE MulDivRem(count_out, NegSum(totals, whole), whole).q,
               IF err = 0 THEN 0 ELSE err + 1, <<count_out>> \o totals)

\* WeightLoop scoring every word of the initial lexicon against `remaining`
\* instead of the words of `remaining`
RECURSIVE WeightLoopAllWords(_, _, _, _, _)
WeightLoopAllWords(remaining, whole, k, best, seen) ==
  IF k > Len(WeightInitial) THEN best
  ELSE LET word == WeightInitial[k].word
           totals == PatternTotals(remaining, word, CorrectnessPatterns)
           next == WeightCandidate(word, WeightInitial[k].weight, totals, whole)
       IN WeightLoopAllWords(remaining, whole, k + 1,
                             UNION {BetterGoodness(c, seen, next) : c \in best},
                             Append(seen, next))

\* for &(word, count_out) in &*self.remaining, from the k-th entry on: best
\* is the set of the values the variable best can have, seen the candidates
\* of the entries before the k-th
RECURSIVE WeightLoop(_, _, _, _, _)
WeightLoop(remaining, whole, k, best, seen) ==
  IF k > Len(remaining) THEN best
  ELSE LET word == remaining[k].word
           totals == PatternTotals(remaining, word, CorrectnessPatterns)
           next == WeightCandidate(word, remaining[k].weight, totals, whole)
       IN WeightLoop(remaining, whole, k + 1,
                     UNION {BetterGoodness(c, seen, next) : c \in best},
                     Append(seen, next))

\* WeightGuess retaining through the borrowed vector: remaining is pruned and
\* stays Cow::Borrowed
WeightGuessInPlace(self, history) ==
  LET pruned == IF history # <<>>
                THEN Retain(self.remaining, history[Len(history)])
                ELSE self.remaining
      best == WeightLoop(pruned, remaining_count(pruned), 1, {NoCandidate}, <<>>)
  IN IF history = <<>>
     THEN {Outcome(Seed, PanicNone, pruned, self.owned, self.patterns,
                   self.patternsOwned, self.computes, self.entropy, self.order)}
     ELSE {Outcome(c.word, IF c.some THEN PanicNone ELSE PanicUnwrapNone,
                   pruned, self.owned, self.patterns, self.patternsOwned,
                   self.computes, self.entropy, self.order) : c \in best}

\* Weight::guess: the outcomes of the call, one for every value best can have
\* after the loop; best.unwrap() panics on None
WeightGuess(self, history) ==
  LET pruned == IF history # <<>>
                THEN Retain(self.remaining, history[Len(history)])
                ELSE self.remaining
      owned == IF history # <<>> THEN TRUE ELSE self.owned
      best == WeightLoop(pruned, remaining_count(pruned), 1, {NoCandidate}, <<>>)
  IN IF history = <<>>
     THEN {Outcome(Seed, PanicNone, pruned, owned, self.patterns,
                   self.patternsOwned, self.computes, self.entropy, self.order)}
     ELSE {Outcome(c.word, IF c.some THEN PanicNone ELSE PanicUnwrapNone,
                   pruned, owned, self.patterns, self.patternsOwned,
                   self.computes, self.entropy, self.order) : c \in best}

\* ------------------------------------------------------------------------
\* Cutoff::guess
\* ------------------------------------------------------------------------

Max(a, b) == IF a >= b THEN a ELSE b

\* statement order of a loop body: the values of one round (`done`: the
\* filtered patterns, the best so far, the table with the cells of the round's
\* lookups) are computed before what follows them (`rest`)
Then(done, rest) == IF <<done>> # <<>> THEN rest ELSE rest

\* the floor of the number of candidates Cutoff scores
CutoffFloor == 16

\* (self.remaining.len() / 3).max(16)
CutoffStop(remaining) == Max(Len(remaining) \div 3, CutoffFloor)

\* CutoffLoop with check_pattern returning true where it returns false: the
\* filter keeps the patterns no remaining word produces
RECURSIVE CutoffLoopInverted(_, _, _, _, _, _, _, _)
CutoffLoopInverted(remaining, whole, k, i, stop, pats, best, seen) ==
  IF k > Len(remaining) THEN [best |-> best, patterns |-> pats, scored |-> i]
  ELSE LET word == remaining[k].word
           row == MaskRow(remaining, word)
           hit == SelectSeq(pats, LAMBDA p : in_pattern_total(remaining, row, p) # 0)
           kept == SelectSeq(pats, LAMBDA p : in_pattern_total(remaining, row, p) = 0)
           totals == <<>> \o [n \in 1..Len(hit) |->
                                in_pattern_total(remaining, row, hit[n])]
           next == WeightCandidate(word, remaining[k].weight, totals, whole)
           better == UNION {BetterGoodness(c, seen, next) : c \in best}
       IN IF Then(<<kept, better>>, i + 1 > stop)
          THEN [best |-> better, patterns |-> kept, scored |-> i + 1]
          ELSE CutoffLoopInverted(remaining, whole, k + 1, i + 1, stop, kept, better,
                                  Append(seen, next))

\* One round of `for &(word, count_out) in &*self.remaining`: check_pattern
\* filters self.patterns in place and adds the kept patterns' terms to sum;
\* then the best-so-far update, i += 1 and the break on i > stop.  best is
\* the set of the values the variable best can have, seen the candidates of
\* the rounds before.
RECURSIVE CutoffLoop(_, _, _, _, _, _, _, _)
CutoffLoop(remaining, whole, k, i, stop, pats, best, seen) ==
  IF k > Len(remaining) THEN [best |-> best, patterns |-> pats, scored |-> i]
  ELSE LET word == remaining[k].word
           row == MaskRow(remaining, word)
           kept == SelectSeq(pats, LAMBDA p : in_pattern_total(remaining, row, p) # 0)
           totals == <<>> \o [n \in 1..Len(kept) |->
                                in_pattern_total(remaining, row, kept[n])]
           next == WeightCandidate(word, remaining[k].weight, totals, whole)
           better == UNION {BetterGoodness(c, seen, next) : c \in best}
       IN IF Then(<<kept, better>>, i + 1 > stop)
          THEN [best |-> better, patterns |-> kept, scored |-> i + 1]
          ELSE CutoffLoop(remaining, whole, k + 1, i + 1, stop, kept, better,
                          Append(seen, next))

CutoffGuess(self, history) ==
  LET pruned == IF history # <<>>
                THEN Retain(self.remaining, history[Len(history)])
                ELSE self.remaining
      owned == IF history # <<>> THEN TRUE ELSE self.owned
      loop == CutoffLoop(pruned, remaining_count(pruned), 1, 0,
                         CutoffStop(pruned), self.patterns, {NoCandidate}, <<>>)
  IN IF history = <<>>
     THEN {Outcome(Seed, PanicNone, pruned, owned, CorrectnessPatterns, FALSE,
                   self.computes, self.entropy, self.order)}
     ELSE IF self.patterns = <<>>
     THEN {Outcome(Seed, PanicPatternsEmpty, pruned, owned, self.patterns,
                   self.patternsOwned, self.computes, self.entropy, self.order)}
     ELSE {IF c.some
           THEN Outcome(c.word, PanicNone, pruned, owned, loop.patterns,
                        TRUE, self.computes, self.entropy, self.order)
           ELSE Outcome(Seed, PanicUnwrapNone, pruned, owned, loop.patterns,
                        self.patternsOwned, self.computes, self.entropy, self.order)
             : c \in loop.best}

\* ------------------------------------------------------------------------
\* Cache::guess and the shared table COMPUTES
\* ------------------------------------------------------------------------

\* an OnceCell<u8> that is not populated
EmptyCell == -1

\* COMPUTES before the first Cache::new
NoComputes == [dimension |-> 0, vec |-> <<>>]

\* COMPUTES.get_or_init(|| (dimension, vec![Default::default(); dimension * dimension]))
ComputesOrInit(table, dimension) ==
  IF table = NoComputes
  THEN [dimension |-> dimension,
        vec |-> [n \in 1..(dimension * dimension) |-> EmptyCell]]
  ELSE table

\* cachable_enumeration(answer, guess)
cachable_enumeration(answer, guess) == enumerate_mask(compute(answer, guess))

\* get_row ignoring the index: always the first row of the table
get_rowFirst(table, guess_idx) == 0

\* get_row(computes, guess_idx): the slice [start, end) of the table, given by
\* its start (0-based)
get_row(table, guess_idx) == guess_idx * table.dimension

\* the cell row[guess_idx] of the table (sequences are 1-based)
CellAt(row, guess_idx) == row + guess_idx + 1

\* get_enumeration initialising the cell with cachable_enumeration(answer,
\* guess): the arguments in the order of its own parameters
get_enumerationSwapped(table, row, answer, guess, guess_idx) ==
  IF table.vec[CellAt(row, guess_idx)] # EmptyCell
  THEN table.vec[CellAt(row, guess_idx)]
  ELSE cachable_enumeration(answer, guess)

\* get_enumeration(row, answer, guess, guess_idx): the value of
\* row[guess_idx].get_or_init(|| cachable_enumeration(guess, &answer))
get_enumeration(table, row, answer, guess, guess_idx) ==
  IF table.vec[CellAt(row, guess_idx)] # EmptyCell
  THEN table.vec[CellAt(row, guess_idx)]
  ELSE cachable_enumeration(guess, answer)

\* the table after that call: the cell is written if it was not populated
AfterGetEnumeration(table, row, answer, guess, guess_idx) ==
  [table EXCEPT !.vec[CellAt(row, guess_idx)] =
     get_enumeration(table, row, answer, guess, guess_idx)]

\* the retain / filter of Cache::guess over the entries (word, _, word_idx) of
\* remaining, entry k onwards: the entries kept and the table it leaves
RECURSIVE CachePrune(_, _, _, _, _, _, _)
CachePrune(remaining, k, table, row, last_word, reference, kept) ==
  IF Then(<<table, kept>>, k > Len(remaining))
  THEN [remaining |-> kept, computes |-> table]
  ELSE LET e == remaining[k]
           v == get_enumeration(table, row, last_word, e.word, e.idx)
       IN CachePrune(remaining, k + 1,
                     AfterGetEnumeration(table, row, last_word, e.word, e.idx),
                     row, last_word, reference,
                     IF reference = v THEN Append(kept, e) ELSE kept)

\* self.remaining.iter().find(|(word, _, _)| &*last.word == *word): the
\* position of the entry in remaining, 0 for None
FindWord(remaining, word) ==
  LET K == {k \in 1..Len(remaining) : remaining[k].word = word}
  IN IF K = {} THEN 0 ELSE Min(K)


\* CacheScan with totals[idx] = count: the slot is overwritten, not added to
RECURSIVE CacheScanAssign(_, _, _, _, _, _)
CacheScanAssign(remaining, k, table, row, word, totals) ==
  IF Then(<<table, totals>>, k > Len(remaining))
  THEN [totals |-> totals, computes |-> table]
  ELSE LET e == remaining[k]
           idx == get_enumeration(table, row, word, e.word, e.idx)
       IN CacheScanAssign(remaining, k + 1,
                          AfterGetEnumeration(table, row, word, e.word, e.idx),
                          row, word, [totals EXCEPT ![idx] = e.weight])

\* for (candidate, count, candidate_idx) in &*self.remaining, candidate k
\* onwards: totals[idx] += count, and the table the lookups leave
RECURSIVE CacheScan(_, _, _, _, _, _)
CacheScan(remaining, k, table, row, word, totals) ==
  IF Then(<<table, totals>>, k > Len(remaining))
  THEN [totals |-> totals, computes |-> table]
  ELSE LET e == remaining[k]
           idx == get_enumeration(table, row, word, e.word, e.idx)
       IN CacheScan(remaining, k + 1,
                    AfterGetEnumeration(table, row, word, e.word, e.idx),
                    row, word, [totals EXCEPT ![idx] = @ + e.weight])

\* the floor of the number of candidates Cache scores
CacheFloor == 20

\* (self.remaining.len() / 3).max(20)
CacheStop(remaining) == Max(Len(remaining) \div 3, CacheFloor)

\* the slots of the array totals that are not 0.0, in the order of the array
NonZeroTotals(totals) ==
  SelectSeq(<<>> \o [n \in 1..MAX_MASK_ENUM |-> totals[n - 1]],
            LAMBDA total : total # 0)

\* e_info = -sum over the totals that are not 0.0, in 10^-6 bit
CacheNegSum(totals, remaining_p) == Entropy(NonZeroTotals(totals), remaining_p)

\* remaining_entropy, in 10^-6 bit
RemainingEntropy(remaining) ==
  Entropy([k \in 1..Len(remaining) |-> remaining[k].weight],
          remaining_count(remaining))

\* e_score = p_word * (score + 1.0)
\*           + (1.0 - p_word) * (score + est_steps_left(remaining_entropy - e_info))
\*         = score + p_word + (1.0 - p_word) * est_steps_left(..),
\* in units of 10^-6
EScore(count, remaining_p, score, remaining_entropy, e_info) ==
  IF remaining_p = 0 THEN 0
  ELSE LET p_word == (count * Micro) \div remaining_p
       IN score * Micro + p_word
            + MulMicro(Micro - p_word, est_steps_left(remaining_entropy - e_info))

\* the number of entries whose weight is not 1.0
Inexact(remaining) ==
  Cardinality({k \in 1..Len(remaining) : remaining[k].weight # WeightOne})

\* a bound no two scores differ by: the model does not tell the scores apart
Unknown == 1000000000

\* the bound of an e_score of up to 64 weights that are all 1.0: the totals
\* are whole numbers, the two entropies are each within 2 units (the rounded
\* logarithms of the table and one division), their difference times 3.870
\* within 17, est_steps_left within 17 / 3.679 + LnErr, p_word within 1 and
\* the product within 1 * 4.1 + 2
EScoreErrExact == 16

\* the same bound with the logarithms that are not of the table
\* (Log2Err = 6): the entropies are each within 13 units
EScoreErrLog == 40

(* A bound of |EScore - e_score| for the scores of one call of guess.  With
   `inexact` entries whose weight is up to one unit from the f64 weight, out
   of a total weight of remaining_p units, the f64 probabilities are within
   theta = inexact / (remaining_p - inexact) of the model's in total
   variation, an entropy of up to n outcomes is within
   theta * (log2(n) + log2(1 / theta) + log2(e)) of the model's (written d
   below), p_word within 2 * theta, est_steps_left within twice the change of
   its argument, and the score within 7 * theta + 4 * d.  Where theta is
   above 1/2 or d above half a bit the scores are not told apart. *)
EScoreErr(remaining) ==
  LET n == Len(remaining)
      remaining_p == remaining_count(remaining)
      inexact == Inexact(remaining)
      theta == (inexact * Micro + remaining_p - inexact - 1)
                 \div (remaining_p - inexact)
      d == MulMicro(theta, Log2(n) + Log2(remaining_p - inexact) - Log2(inexact)
                             + 12 + Log2E) + 1
  IN IF inexact = 0 THEN (IF n <= 64 THEN EScoreErrExact ELSE EScoreErrLog)
     ELSE IF remaining_p < 3 * inexact THEN Unknown
     ELSE IF d > Micro \div 2 THEN Unknown
     ELSE EScoreErrLog + 7 * theta + 4 * d

\* what the e_score of a word was computed from: with weights that are all
\* 1.0 the weight and the totals that are not 0.0, in the order of the array;
\* with other weights nothing the model has tells that two f64 scores are
\* equal
EScoreTerms(remaining, word, count, totals) ==
  IF Inexact(remaining) = 0 THEN <<count>> \o NonZeroTotals(totals) ELSE <<word>>

\* if let Some(c) = best { if e_score < c.e_score { best = Some(..) } }
\* else { best = Some(..) }: the values best can have afterwards; the field
\* goodness holds the e_score, and no candidate of `seen`, the candidates
\* scored before, has a score below the one of best
LowerEScore(best, seen, next) ==
  IF ~best.some THEN {next}
  ELSE IF Greater(best, next) THEN {next}
  ELSE IF \A m \in 1..Len(seen) :
            ~Greater(next, seen[m]) /\ ~SameValue(seen[m], next)
  THEN {best, next}
  ELSE {best}

\* for &(word, count, word_idx) in &*self.remaining, entry k onwards, with
\* i += 1 and the break on i >= stop; best is the set of the values the
\* variable best can have, seen the candidates of the rounds before
RECURSIVE CacheLoop(_, _, _, _, _, _, _, _, _)
CacheLoop(remaining, k, i, stop, table, score, remaining_entropy, best, seen) ==
  IF k > Len(remaining) THEN [best |-> best, computes |-> table, scored |-> i]
  ELSE LET e == remaining[k]
           remaining_p == remaining_count(remaining)
           scan == CacheScan(remaining, 1, table, get_row(table, e.idx), e.word,
                             [n \in 0..(MAX_MASK_ENUM - 1) |-> 0])
           e_info == CacheNegSum(scan.totals, remaining_p)
           e_score == EScore(e.weight, remaining_p, score, remaining_entropy, e_info)
           next == Candidate(e.word, e_score, EScoreErr(remaining),
                             EScoreTerms(remaining, e.word, e.weight, scan.totals))
           better == UNION {LowerEScore(c, seen, next) : c \in best}
       IN IF Then(<<scan.computes, better>>, i + 1 >= stop)
          THEN [best |-> better, computes |-> scan.computes, scored |-> i + 1]
          ELSE CacheLoop(remaining, k + 1, i + 1, stop, scan.computes, score,
                         remaining_entropy, better, Append(seen, next))

CacheGuess(self, history) ==
  IF history = <<>>
  THEN {Outcome(Seed, PanicNone, self.remaining, self.owned, CorrectnessPatterns,
                FALSE, self.computes, self.entropy, self.order)}
  ELSE
    LET last == history[Len(history)]
        reference == enumerate_mask(last.mask)
        found == FindWord(self.remaining, last.word)
    IN IF found = 0
       THEN {Outcome(Seed, PanicUnwrapNone, self.remaining, self.owned,
                     self.patterns, self.patternsOwned, self.computes, self.entropy, self.order)}
       ELSE
         LET last_idx == self.remaining[found].idx
             prune == CachePrune(self.remaining, 1, self.computes,
                                 get_row(self.computes, last_idx), last.word,
                                 reference, <<>>)
             pruned == prune.remaining
         IN IF self.patterns = <<>>
            THEN {Outcome(Seed, PanicPatternsEmpty, pruned, TRUE, self.patterns,
                          self.patternsOwned, prune.computes, self.entropy, self.order)}
            ELSE IF pruned = <<>>
            \* remaining_p = 0.0 and the loop scores nothing: best is None
            THEN {Outcome(Seed, PanicUnwrapNone, pruned, TRUE, self.patterns,
                          self.patternsOwned, prune.computes,
                          Append(self.entropy, 0), self.order)}
            ELSE
              LET remaining_entropy == RemainingEntropy(pruned)
                  loop == CacheLoop(pruned, 1, 0, CacheStop(pruned), prune.computes,
                                    Len(history), remaining_entropy, {NoCandidate}, <<>>)
              IN {Outcome(c.word, IF c.some THEN PanicNone ELSE PanicUnwrapNone,
                          pruned, TRUE, self.patterns, self.patternsOwned,
                          loop.computes, Append(self.entropy, remaining_entropy), self.order)
                    : c \in loop.best}

\* ------------------------------------------------------------------------
\* The guessers of the tests: a closure over the history's length
\* ------------------------------------------------------------------------

\* guesser!(|history| { if history.len() == k { return hit; } return miss; })
MockGuess(self, history, mock) ==
  LET word == IF Len(history) = mock.k THEN mock.hit ELSE mock.miss
  IN {Outcome(word, PanicNone, self.remaining, self.owned, self.patterns,
              self.patternsOwned, self.computes, self.entropy, self.order)}

\* the words the closures of the tests return and the answers they are played
\* against: two dictionary words and a word that is no dictionary word
MockWords == {holly, hobby, zzzzz}

\* the largest history length a closure of the model switches on
MaxSwitch == 32

Implementations == {"Unoptimised", "Allocs", "Weight", "Cutoff", "Cache"}

\* G::default() over the dictionary file `lines`: the guesser a game starts
\* with; table is COMPUTES and cell what INITIAL.get_or_init(..) returned
NewGuesser(impl, table, cell, lines) ==
  IF impl = "Cache"
  THEN [remaining |-> cell, owned |-> FALSE,
        patterns |-> CorrectnessPatterns, patternsOwned |-> FALSE,
        computes |-> ComputesOrInit(table, Len(cell)), entropy |-> <<>>,
        order |-> NoOrder]
  ELSE IF impl = "Cutoff"
  THEN [remaining |-> cell, owned |-> FALSE,
        patterns |-> CorrectnessPatterns, patternsOwned |-> FALSE,
        computes |-> table, entropy |-> <<>>,
        order |-> NoOrder]
  ELSE IF impl = "Weight"
  THEN [remaining |-> cell, owned |-> FALSE,
        patterns |-> <<>>, patternsOwned |-> FALSE,
        computes |-> table, entropy |-> <<>>,
        order |-> NoOrder]
  ELSE [remaining |-> HashMapFromIter(lines), owned |-> TRUE,
        patterns |-> <<>>, patternsOwned |-> FALSE,
        computes |-> table, entropy |-> <<>>,
        order |-> NoOrder]

\* guesser.guess(&history): the outcomes the call can have
GuessCall(impl, self, history, mock) ==
  IF impl = "Unoptimised" THEN UnoptimisedGuess(self, history)
  ELSE IF impl = "Allocs" THEN AllocsGuess(self, history)
  ELSE IF impl = "Weight" THEN WeightGuess(self, history)
  ELSE IF impl = "Cutoff" THEN CutoffGuess(self, history)
  ELSE IF impl = "Cache" THEN CacheGuess(self, history)
  ELSE MockGuess(self, history, mock)

\* ------------------------------------------------------------------------
\* Wordle::play: one round of `for i in 1..=32`, after the guesser returned
\* ------------------------------------------------------------------------

None == [tag |-> "None", value |-> 0]
Some(i) == [tag |-> "Some", value |-> i]
Pending == [tag |-> "Pending", value |-> 0]

\* PlayRound with the loop `for i in 1..32`: the function ends after round 31
PlayRoundExclusive(dictionary, answer, i, history, guess) ==
  IF guess \notin dictionary
  THEN [panic |-> PanicNotInDictionary, result |-> Pending, history |-> history]
  ELSE IF guess = answer
  THEN [panic |-> PanicNone, result |-> Some(i), history |-> history]
  ELSE [panic |-> PanicNone,
        result |-> IF i = MaxTurns - 1 THEN None ELSE Pending,
        history |-> Append(history, Guess(guess, compute(answer, guess)))]

\* PlayRound pushing Correctness::compute(&guess, answer)
PlayRoundSwappedMask(dictionary, answer, i, history, guess) ==
  IF guess \notin dictionary
  THEN [panic |-> PanicNotInDictionary, result |-> Pending, history |-> history]
  ELSE IF guess = answer
  THEN [panic |-> PanicNone, result |-> Some(i), history |-> history]
  ELSE [panic |-> PanicNone,
        result |-> IF i = MaxTurns THEN None ELSE Pending,
        history |-> Append(history, Guess(guess, compute(guess, answer)))]

\* PlayRound returning the number of guesses that came before the match
PlayRoundZeroBased(dictionary, answer, i, history, guess) ==
  IF guess \notin dictionary
  THEN [panic |-> PanicNotInDictionary, result |-> Pending, history |-> history]
  ELSE IF guess = answer
  THEN [panic |-> PanicNone, result |-> Some(i - 1), history |-> history]
  ELSE [panic |-> PanicNone,
        result |-> IF i = MaxTurns THEN None ELSE Pending,
        history |-> Append(history, Guess(guess, compute(answer, guess)))]

\* PlayRound comparing the guess with the answer before the assertion
PlayRoundCompareFirst(dictionary, answer, i, history, guess) ==
  IF guess = answer
  THEN [panic |-> PanicNone, result |-> Some(i), history |-> history]
  ELSE IF guess \notin dictionary
  THEN [panic |-> PanicNotInDictionary, result |-> Pending, history |-> history]
  ELSE [panic |-> PanicNone,
        result |-> IF i = MaxTurns THEN None ELSE Pending,
        history |-> Append(history, Guess(guess, compute(answer, guess)))]

\* What the round does with the guess: the assertion on the dictionary, the
\* comparison with the answer, the push on the history; and, behind the last
\* round, the None the function ends with.
PlayRound(dictionary, answer, i, history, guess) ==
  IF guess \notin dictionary
  THEN [panic |-> PanicNotInDictionary, result |-> Pending, history |-> history]
  ELSE IF guess = answer
  THEN [panic |-> PanicNone, result |-> Some(i), history |-> history]
  ELSE [panic |-> PanicNone,
        result |-> IF i = MaxTurns THEN None ELSE Pending,
        history |-> Append(history, Guess(guess, compute(answer, guess)))]

\* ------------------------------------------------------------------------
\* State
\* ------------------------------------------------------------------------
VARIABLES
  impl,          \* the implementation the run plays with, or "Mock", or "Fn"
  mock,          \* the closure of a test guesser: [k, hit, miss]
  todo,          \* the answers the driver has not played yet
  answer,        \* play: the answer of the current game
  pc,            \* "idle" | "playing" | "returned" | "panicked" | "done"
  turn,          \* play: i
  history,       \* play: history
  lastGuess,     \* play: the guess of the latest round
  result,        \* what play returned: Some(i), None, or Pending
  panic,         \* the panic that aborted the process, or PanicNone
  remaining,     \* guesser: self.remaining
  owned,         \* guesser: self.remaining is Cow::Owned
  patterns,      \* guesser: self.patterns (Cutoff, Cache)
  patternsOwned, \* guesser: self.patterns is Cow::Owned
  entropy,       \* guesser: self.entropy (Cache)
  order,         \* guesser: the order self.remaining iterates in (HashMap)
  computes,      \* the static COMPUTES (Cache)
  initial,       \* the static INITIAL of the implementation (Weight, Cutoff, Cache)
  score,         \* driver: score
  played,        \* driver: played
  fnAnswer,      \* a call of compute: the answer
  fnGuess,       \* a call of compute: the guess
  fnMask,        \* a call of compute: the mask returned; of matches: self.mask
  fnMatch,       \* a call of matches: the bool returned, or NoMatch
  fnPc,          \* "off" | "input" | "computed" | "entry" | "matched"
  lookups,       \* threads playing Cache games at once: their table lookups
  running,       \* the cells of COMPUTES whose initialiser is running
  iter           \* calls of Correctness::patterns(): the iterator and its items

gameVars == <<impl, mock, todo, answer, pc, turn, history, lastGuess, result,
              panic, remaining, owned, patterns, patternsOwned, entropy,
              order, computes, initial, score, played>>

fnVars == <<fnAnswer, fnGuess, fnMask, fnMatch, fnPc>>

cellVars == <<lookups, running>>

iterVars == <<iter>>

vars == <<impl, mock, todo, answer, pc, turn, history, lastGuess, result,
          panic, remaining, owned, patterns, patternsOwned, entropy,
          order, computes, initial, score, played, fnAnswer, fnGuess, fnMask, fnMatch,
          fnPc,
          lookups, running, iter>>

NoWord == <<>>

NoMask == [k \in Positions |-> Wrong]

NoMatch == "none"

NoMock == [k |-> 0, hit |-> NoWord, miss |-> NoWord]

\* the guesser as the record the guess operators take
Self ==
  [remaining |-> remaining, owned |-> owned, patterns |-> patterns,
   patternsOwned |-> patternsOwned, computes |-> computes, entropy |-> entropy,
   order |-> order]

\* nothing runs: the values the game has before the driver starts
GameIdle ==
  /\ answer = NoWord
  /\ pc = "idle"
  /\ turn = 1
  /\ history = <<>>
  /\ lastGuess = NoWord
  /\ result = Pending
  /\ panic = PanicNone
  /\ remaining = <<>>
  /\ owned = FALSE
  /\ patterns = <<>>
  /\ patternsOwned = FALSE
  /\ entropy = <<>>
  /\ order = NoOrder
  /\ computes = NoComputes
  /\ initial = NoInitial
  /\ score = 0
  /\ played = 0

FnOff ==
  /\ fnAnswer = NoWord
  /\ fnGuess = NoWord
  /\ fnMask = NoMask
  /\ fnMatch = NoMatch
  /\ fnPc = "off"

\* Correctness::patterns() is not being called
NoIter == [pc |-> "off"]

IterOff == iter = NoIter

\* no thread plays
CellOff ==
  /\ lookups = <<>>
  /\ running = {}

\* A run of the driver with one implementation over one answers file, or one
\* test: a call of play with a closure guesser and one answer.
Init ==
  /\ impl \in Implementations \cup {"Mock"}
  /\ mock \in IF impl = "Mock"
              THEN [k : 0..MaxSwitch, hit : MockWords, miss : MockWords]
              ELSE {NoMock}
  /\ todo \in IF impl = "Mock"
              THEN {<<a>> : a \in MockWords}
              ELSE GameLists
  /\ GameIdle
  /\ FnOff
  /\ CellOff
  /\ IterOff

\* main.rs play: the next answer of the file, G::default() and the call of
\* w.play(answer, guesser) up to its loop
StartGame ==
  /\ pc = "idle"
  /\ todo # <<>>
  /\ answer' = Head(todo)
  /\ todo' = Tail(todo)
  /\ \E cell \in InitialOrInit(impl, initial, DICTIONARY) :
       LET g == NewGuesser(impl, computes, cell, DICTIONARY)
       IN /\ initial' = cell
          /\ remaining' = g.remaining
          /\ owned' = g.owned
          /\ patterns' = g.patterns
          /\ patternsOwned' = g.patternsOwned
          /\ entropy' = g.entropy
          /\ order' = g.order
          /\ computes' = g.computes
  /\ history' = <<>>
  /\ turn' = 1
  /\ result' = Pending
  /\ pc' = "playing"
  /\ UNCHANGED <<impl, mock, lastGuess, panic, score, played>>
  /\ UNCHANGED fnVars
  /\ UNCHANGED cellVars
  /\ UNCHANGED iterVars

\* Wordle::play: one round of the loop: the call of guesser.guess(&history)
\* and what play does with the word it returns
PlayTurn ==
  /\ pc = "playing"
  /\ \E g \in GuessCall(impl, Self, history, mock) :
       /\ remaining' = g.remaining
       /\ owned' = g.owned
       /\ patterns' = g.patterns
       /\ patternsOwned' = g.patternsOwned
       /\ entropy' = g.entropy
       /\ order' = g.order
       /\ computes' = g.computes
       /\ IF g.panic # PanicNone
          THEN /\ pc' = "panicked"
               /\ panic' = g.panic
               /\ UNCHANGED <<history, result, turn, lastGuess>>
          ELSE LET r == PlayRound(WordleDictionary, answer, turn, history, g.word)
               IN /\ lastGuess' = g.word
                  /\ history' = r.history
                  /\ result' = r.result
                  /\ panic' = r.panic
                  /\ pc' = IF r.panic # PanicNone THEN "panicked"
                           ELSE IF r.result # Pending THEN "returned"
                           ELSE "playing"
                  /\ turn' = IF r.panic = PanicNone /\ r.result = Pending
                             THEN turn + 1 ELSE turn
  /\ UNCHANGED <<initial, impl, mock, todo, answer, score, played>>
  /\ UNCHANGED fnVars
  /\ UNCHANGED cellVars
  /\ UNCHANGED iterVars


\* EndGame with played += 1 outside of the `if let Some(s)`: every game counts
EndGameCountAll ==
  /\ pc = "returned"
  /\ played' = played + 1
  /\ score' = IF result.tag = "Some" THEN score + result.value ELSE score
  /\ pc' = "idle"
  /\ UNCHANGED <<initial, impl, mock, todo, answer, turn, history, lastGuess, result,
                 panic, remaining, owned, patterns, patternsOwned, entropy,
                 order, computes>>
  /\ UNCHANGED fnVars
  /\ UNCHANGED cellVars
  /\ UNCHANGED iterVars

\* main.rs play: if let Some(s) = w.play(..) { played += 1; score += s; }
EndGame ==
  /\ pc = "returned"
  /\ played' = IF result.tag = "Some" THEN played + 1 ELSE played
  /\ score' = IF result.tag = "Some" THEN score + result.value ELSE score
  /\ pc' = "idle"
  /\ UNCHANGED <<initial, impl, mock, todo, answer, turn, history, lastGuess, result,
                 panic, remaining, owned, patterns, patternsOwned, entropy,
                 order, computes>>
  /\ UNCHANGED fnVars
  /\ UNCHANGED cellVars
  /\ UNCHANGED iterVars

\* main.rs play: the answers are exhausted, the average is printed
Exit ==
  /\ pc = "idle"
  /\ todo = <<>>
  /\ pc' = "done"
  /\ UNCHANGED <<initial, impl, mock, todo, answer, turn, history, lastGuess, result,
                 panic, remaining, owned, patterns, patternsOwned, entropy,
                 order, computes, score, played>>
  /\ UNCHANGED fnVars
  /\ UNCHANGED cellVars
  /\ UNCHANGED iterVars

Next == StartGame \/ PlayTurn \/ EndGame \/ Exit

Spec == Init /\ [][Next]_vars

\* the history lengths the guessers of the driver runs below switch on: the
\* first rounds, the last round, and a length no round reaches
DriverSwitches == {0, 1, MaxTurns - 1, MaxTurns}

\* A run of the driver, play::<G>, with a guesser type that proposes fixed
\* words, over an answers file of dictionary and other words: games that are
\* won at once, late, or not within the 32 rounds
DriverInit ==
  /\ impl = "Mock"
  /\ mock \in [k : DriverSwitches, hit : MockWords \ {zzzzz}, miss : MockWords \ {zzzzz}]
  /\ todo \in UNION {[1..n -> MockWords] : n \in 1..NumGames}
  /\ GameIdle
  /\ FnOff
  /\ CellOff
  /\ IterOff

SpecDriver == DriverInit /\ [][Next]_vars

\* ------------------------------------------------------------------------
\* Calls of the pure functions on every pair of words
\* ------------------------------------------------------------------------

FnInit ==
  /\ fnAnswer \in Words
  /\ fnGuess \in Words
  /\ fnMask = NoMask
  /\ fnMatch = NoMatch
  /\ fnPc = "input"
  /\ impl = "Fn"
  /\ mock = NoMock
  /\ todo = <<>>
  /\ GameIdle
  /\ CellOff
  /\ IterOff

\* a call of Correctness::compute(answer, guess)
CallCompute ==
  /\ fnPc = "input"
  /\ fnMask' = compute(fnAnswer, fnGuess)
  /\ fnPc' = "computed"
  /\ UNCHANGED <<fnAnswer, fnGuess, fnMatch>>
  /\ UNCHANGED gameVars
  /\ UNCHANGED cellVars
  /\ UNCHANGED iterVars

FnNext == CallCompute

SpecFn == FnInit /\ [][FnNext]_vars

\* ------------------------------------------------------------------------
\* The driver over a lexicon long enough for the truncating strategies to
\* stop early: the build with a dictionary file of the seed word and
\* NumBigWords words that share no letter with it
\* ------------------------------------------------------------------------

\* number of lines of the long dictionary file behind the seed word's line
NumBigWords == 21

BigLetters == <<"b", "c", "d", "h", "i", "l", "o", "y">>

\* the k-th word of the long dictionary file
BigWord(k) ==
  <<BigLetters[((k - 1) % 8) + 1], "o", BigLetters[((k - 1) \div 8) + 1], "l", "y">>

\* lines "word count" of the long dictionary file, in file order: counts that
\* grow along the file, the first two words with the same one
BigLines ==
  <<Line(tares, 1)>> \o [k \in 1..NumBigWords |-> Line(BigWord(k), Max(k, 2))]

\* Wordle::new over the long dictionary file
BigDictionary == {BigLines[k].word : k \in 1..Len(BigLines)}

\* A run of the driver with Cutoff or Cache over an answers file of one word
\* of the long dictionary
BigInit ==
  /\ impl \in {"Cutoff", "Cache"}
  /\ mock = NoMock
  /\ todo \in {<<a>> : a \in BigDictionary}
  /\ GameIdle
  /\ FnOff
  /\ CellOff
  /\ IterOff

\* main.rs play over the long dictionary: the next answer of the file,
\* G::default() and the call of w.play(answer, guesser) up to its loop
BigStart ==
  /\ pc = "idle"
  /\ todo # <<>>
  /\ answer' = Head(todo)
  /\ todo' = Tail(todo)
  /\ \E cell \in InitialOrInit(impl, initial, BigLines) :
       LET g == NewGuesser(impl, computes, cell, BigLines)
       IN /\ initial' = cell
          /\ remaining' = g.remaining
          /\ owned' = g.owned
          /\ patterns' = g.patterns
          /\ patternsOwned' = g.patternsOwned
          /\ entropy' = g.entropy
          /\ order' = g.order
          /\ computes' = g.computes
  /\ history' = <<>>
  /\ turn' = 1
  /\ result' = Pending
  /\ pc' = "playing"
  /\ UNCHANGED <<impl, mock, lastGuess, panic, score, played>>
  /\ UNCHANGED fnVars
  /\ UNCHANGED cellVars
  /\ UNCHANGED iterVars

\* Wordle::play over the long dictionary: one round of the loop
BigTurn ==
  /\ pc = "playing"
  /\ \E g \in GuessCall(impl, Self, history, mock) :
       /\ remaining' = g.remaining
       /\ owned' = g.owned
       /\ patterns' = g.patterns
       /\ patternsOwned' = g.patternsOwned
       /\ entropy' = g.entropy
       /\ order' = g.order
       /\ computes' = g.computes
       /\ IF g.panic # PanicNone
          THEN /\ pc' = "panicked"
               /\ panic' = g.panic
               /\ UNCHANGED <<history, result, turn, lastGuess>>
          ELSE LET r == PlayRound(BigDictionary, answer, turn, history, g.word)
               IN /\ lastGuess' = g.word
                  /\ history' = r.history
                  /\ result' = r.result
                  /\ panic' = r.panic
                  /\ pc' = IF r.panic # PanicNone THEN "panicked"
                           ELSE IF r.result # Pending THEN "returned"
                           ELSE "playing"
                  /\ turn' = IF r.panic = PanicNone /\ r.result = Pending
                             THEN turn + 1 ELSE turn
  /\ UNCHANGED <<initial, impl, mock, todo, answer, score, played>>
  /\ UNCHANGED fnVars
  /\ UNCHANGED cellVars
  /\ UNCHANGED iterVars

BigNext == BigStart \/ BigTurn \/ EndGame \/ Exit

SpecBig == BigInit /\ [][BigNext]_vars

\* A history entry (word fnGuess, mask fnMask) and a candidate fnAnswer: the
\* mask is the mask of the candidate against the word, or the mask with the two
\* roles exchanged
MatchInit ==
  /\ fnAnswer \in Words
  /\ fnGuess \in Words
  /\ fnMask \in {compute(fnAnswer, fnGuess), compute(fnGuess, fnAnswer)}
  /\ fnMatch = NoMatch
  /\ fnPc = "entry"
  /\ impl = "Fn"
  /\ mock = NoMock
  /\ todo = <<>>
  /\ GameIdle
  /\ CellOff
  /\ IterOff

\* a call of Guess { word: fnGuess, mask: fnMask }.matches(fnAnswer)
CallMatches ==
  /\ fnPc = "entry"
  /\ fnMatch' = matches(Guess(fnGuess, fnMask), fnAnswer)
  /\ fnPc' = "matched"
  /\ UNCHANGED <<fnAnswer, fnGuess, fnMask>>
  /\ UNCHANGED gameVars
  /\ UNCHANGED cellVars
  /\ UNCHANGED iterVars

MatchNext == CallMatches

SpecMatch == MatchInit /\ [][MatchNext]_vars

\* ------------------------------------------------------------------------
\* Cache games played at once by several threads over the static COMPUTES:
\* the calls of get_enumeration, with OnceCell::get_or_init taken apart into
\* its atomic steps
\* ------------------------------------------------------------------------

\* the threads that play
Threads == {1, 2}

\* number of lines of the dictionary file the games of the threads load
NumCellWords == 5

\* the lines of that file, in file order
CellLines == SubSeq(AllLines, 1, NumCellWords)

\* Wordle::new over that file
CellDictionary == {CellLines[k].word : k \in 1..Len(CellLines)}

\* one call get_enumeration(row, answer, guess, guess_idx)
Lookup(row, a, g, guess_idx) ==
  [row |-> row, answer |-> a, guess |-> g, guess_idx |-> guess_idx]

\* GuessLookups with the scoring loop calling
\* get_enumeration(row, candidate, &word, *candidate_idx)
GuessLookupsSwapped(self, hist) ==
  IF hist = <<>> THEN <<>>
  ELSE
    LET last == hist[Len(hist)]
        found == FindWord(self.remaining, last.word)
        row == get_row(self.computes, self.remaining[found].idx)
        pruning == [k \in 1..Len(self.remaining) |->
                      Lookup(row, last.word, self.remaining[k].word,
                             self.remaining[k].idx)]
        pruned == CachePrune(self.remaining, 1, self.computes, row, last.word,
                             enumerate_mask(last.mask), <<>>).remaining
        n == Len(pruned)
        rounds == IF n < CacheStop(pruned) THEN n ELSE CacheStop(pruned)
        scoring == [m \in 1..(rounds * n) |->
                      LET e == pruned[((m - 1) \div n) + 1]
                          c == pruned[((m - 1) % n) + 1]
                      IN Lookup(get_row(self.computes, e.idx), c.word, e.word, c.idx)]
    IN IF found = 0 THEN <<>> ELSE pruning \o scoring

\* The calls of get_enumeration one call of Cache::guess makes, in order: the
\* retain / filter over self.remaining on the row of the last guess, then, for
\* each candidate scored, one call per entry of the pruned remaining.
GuessLookups(self, hist) ==
  IF hist = <<>> THEN <<>>
  ELSE
    LET last == hist[Len(hist)]
        found == FindWord(self.remaining, last.word)
        row == get_row(self.computes, self.remaining[found].idx)
        pruning == [k \in 1..Len(self.remaining) |->
                      Lookup(row, last.word, self.remaining[k].word,
                             self.remaining[k].idx)]
        pruned == CachePrune(self.remaining, 1, self.computes, row, last.word,
                             enumerate_mask(last.mask), <<>>).remaining
        n == Len(pruned)
        rounds == IF n < CacheStop(pruned) THEN n ELSE CacheStop(pruned)
        scoring == [m \in 1..(rounds * n) |->
                      LET e == pruned[((m - 1) \div n) + 1]
                          c == pruned[((m - 1) % n) + 1]
                      IN Lookup(get_row(self.computes, e.idx), e.word, c.word, c.idx)]
    IN IF found = 0 THEN <<>> ELSE pruning \o scoring

\* w.play(a, Cache::new()) from round i on, run by itself: the table it leaves
\* and the calls of get_enumeration it makes, for every word the calls of
\* guess can return
RECURSIVE CacheGame(_, _, _, _)
CacheGame(self, a, i, hist) ==
  LET calls == GuessLookups(self, hist)
  IN UNION {
       LET r == PlayRound(CellDictionary, a, i, hist, g.word)
       IN IF g.panic # PanicNone \/ r.panic # PanicNone \/ r.result # Pending
          THEN {[computes |-> g.computes, plan |-> calls]}
          ELSE {[computes |-> rest.computes, plan |-> calls \o rest.plan]
                  : rest \in CacheGame(g, a, i + 1, r.history)}
       : g \in CacheGuess(self, hist)}

\* COMPUTES after Cache::new over the lexicon `cell`, no cell populated
FreshComputes(cell) == ComputesOrInit(NoComputes, Len(cell))

\* the answers the threads play for: words of the dictionary behind the seed
CellAnswers == {a \in AnswerPool : a \in CellDictionary}

\* a thread about to play for a: its answer, the calls of get_enumeration
\* ahead of it, the position of the next one, its place in get_or_init and the
\* value the latest call returned
NewThread(a, cell) ==
  {[answer |-> a, plan |-> game.plan, at |-> 1, pc |-> "call", got |-> EmptyCell]
     : game \in CacheGame(NewGuesser("Cache", FreshComputes(cell), cell, CellLines),
                          a, 1, <<>>)}

\* the cell the next call of thread t addresses
CellOf(t) ==
  LET l == lookups[t].plan[lookups[t].at]
  IN CellAt(l.row, l.guess_idx)

\* the call returns v: the thread goes on to its next call
Returned(t, v) ==
  [lookups EXCEPT ![t] =
     [@ EXCEPT !.got = v,
               !.at = @ + 1,
               !.pc = IF lookups[t].at + 1 > Len(lookups[t].plan)
                      THEN "done" ELSE "call"]]

\* the variables of the driver, which the threads leave alone
driverVars == <<impl, mock, todo, answer, pc, turn, history, lastGuess, result,
                panic, remaining, owned, patterns, patternsOwned, entropy,
                order, initial, score, played>>

\* Two threads, each about to play one Cache game, COMPUTES initialised
CellInit ==
  /\ impl = "Cache"
  /\ mock = NoMock
  /\ todo = <<>>
  /\ answer = NoWord
  /\ pc = "idle"
  /\ turn = 1
  /\ history = <<>>
  /\ lastGuess = NoWord
  /\ result = Pending
  /\ panic = PanicNone
  /\ remaining = <<>>
  /\ owned = FALSE
  /\ patterns = <<>>
  /\ patternsOwned = FALSE
  /\ entropy = <<>>
  /\ order = NoOrder
  /\ initial \in InitialOrInit("Cache", NoInitial, CellLines)
  /\ computes = FreshComputes(initial)
  /\ score = 0
  /\ played = 0
  /\ FnOff
  /\ IterOff
  /\ lookups \in [Threads -> UNION {NewThread(a, initial) : a \in CellAnswers}]
  /\ running = {}

\* get_or_init, fast path: the cell is populated and its value is returned;
\* otherwise the thread enters the initialisation
CellCall(t) ==
  /\ lookups[t].pc = "call"
  /\ IF computes.vec[CellOf(t)] # EmptyCell
     THEN lookups' = Returned(t, computes.vec[CellOf(t)])
     ELSE lookups' = [lookups EXCEPT ![t].pc = "slow"]
  /\ UNCHANGED <<computes, running>>
  /\ UNCHANGED driverVars
  /\ UNCHANGED iterVars
  /\ UNCHANGED fnVars

\* get_or_init, slow path: the cell was populated meanwhile; or another thread
\* is running its initialiser and this one waits; or this thread takes the
\* cell and runs its own initialiser
CellSlow(t) ==
  /\ lookups[t].pc = "slow"
  /\ IF computes.vec[CellOf(t)] # EmptyCell
     THEN /\ lookups' = Returned(t, computes.vec[CellOf(t)])
          /\ UNCHANGED running
     ELSE IF CellOf(t) \in running
     THEN /\ lookups' = [lookups EXCEPT ![t].pc = "wait"]
          /\ UNCHANGED running
     ELSE /\ lookups' = [lookups EXCEPT ![t].pc = "init"]
          /\ running' = running \cup {CellOf(t)}
  /\ UNCHANGED computes
  /\ UNCHANGED driverVars
  /\ UNCHANGED iterVars
  /\ UNCHANGED fnVars

\* the initialiser || cachable_enumeration(guess, &answer) has run: its value
\* is stored in the cell and returned
CellPublish(t) ==
  /\ lookups[t].pc = "init"
  /\ LET l == lookups[t].plan[lookups[t].at]
     IN /\ computes' = AfterGetEnumeration(computes, l.row, l.answer, l.guess,
                                           l.guess_idx)
        /\ lookups' = Returned(t, get_enumeration(computes, l.row, l.answer,
                                                  l.guess, l.guess_idx))
  /\ running' = running \ {CellOf(t)}
  /\ UNCHANGED driverVars
  /\ UNCHANGED iterVars
  /\ UNCHANGED fnVars

\* the thread that waited finds the cell populated and returns its value
CellWake(t) ==
  /\ lookups[t].pc = "wait"
  /\ computes.vec[CellOf(t)] # EmptyCell
  /\ lookups' = Returned(t, computes.vec[CellOf(t)])
  /\ UNCHANGED <<computes, running>>
  /\ UNCHANGED driverVars
  /\ UNCHANGED iterVars
  /\ UNCHANGED fnVars

CellNext ==
  \E t \in Threads : CellCall(t) \/ CellSlow(t) \/ CellPublish(t) \/ CellWake(t)

SpecCells == CellInit /\ [][CellNext]_vars

\* ------------------------------------------------------------------------
\* Correctness::patterns() as the iterator it returns: iproduct! over five
\* copies of [Correct, Misplaced, Wrong], consumed item by item
\* ------------------------------------------------------------------------

\* number of calls of Correctness::patterns() a run makes
NumCalls == 2

\* the iterator before its first item: every array at its first element
ProductFirst == [k \in Positions |-> 0]

\* the iterator behind its last item
ProductEnd == <<>>

\* .map(|(a, b, c, d, e)| [a, b, c, d, e]) of the tuple the iterator stands on
ProductItem(idx) == [k \in Positions |-> PatternSymbols[idx[k] + 1]]

\* ProductCarry without the restart of the inner iterator: slot k stays behind
\* its last element when the slot before it advances
RECURSIVE ProductCarryNoReset(_, _)
ProductCarryNoReset(idx, k) ==
  IF k = 0 THEN ProductEnd
  ELSE IF idx[k] + 1 < Len(PatternSymbols)
  THEN [idx EXCEPT ![k] = @ + 1]
  ELSE ProductCarryNoReset(idx, k - 1)

\* Product::next from slot k: the inner iterator advances; when it is
\* exhausted it starts again and the iterator outside of it advances
RECURSIVE ProductCarry(_, _)
ProductCarry(idx, k) ==
  IF k = 0 THEN ProductEnd
  ELSE IF idx[k] + 1 < Len(PatternSymbols)
  THEN [idx EXCEPT ![k] = @ + 1]
  ELSE ProductCarry([idx EXCEPT ![k] = 0], k - 1)

\* the iterator after next(): the last array is the innermost one
ProductAdvance(idx) == ProductCarry(idx, WordLen)

\* Correctness::patterns(): call number n, nothing consumed yet; first holds
\* the items of the first call
NewIter(n, first) ==
  [pc |-> "iterating", call |-> n, idx |-> ProductFirst, out |-> <<>>,
   first |-> first]

\* A run that calls Correctness::patterns() and consumes the iterator
PatternsInit ==
  /\ impl = "Fn"
  /\ mock = NoMock
  /\ todo = <<>>
  /\ GameIdle
  /\ FnOff
  /\ lookups = <<>>
  /\ running = {}
  /\ iter = NewIter(1, <<>>)

\* next() on the iterator: Some(item)
PatternsYield ==
  /\ iter.pc = "iterating"
  /\ LET after == ProductAdvance(iter.idx)
     IN iter' = [iter EXCEPT !.out = Append(@, ProductItem(iter.idx)),
                             !.idx = after,
                             !.pc = IF after = ProductEnd THEN "exhausted"
                                    ELSE "iterating"]
  /\ UNCHANGED gameVars
  /\ UNCHANGED fnVars
  /\ UNCHANGED cellVars

\* the iterator returned None; Correctness::patterns() is called again
PatternsAgain ==
  /\ iter.pc = "exhausted"
  /\ iter.call < NumCalls
  /\ iter' = NewIter(iter.call + 1, IF iter.call = 1 THEN iter.out ELSE iter.first)
  /\ UNCHANGED gameVars
  /\ UNCHANGED fnVars
  /\ UNCHANGED cellVars

PatternsNext == PatternsYield \/ PatternsAgain

SpecPatterns == PatternsInit /\ [][PatternsNext]_vars

\* ------------------------------------------------------------------------
\* Properties of compute
\* ------------------------------------------------------------------------

\* The two-pass reference for answer a and guess g.  First pass: position i
\* is Correct iff the letters agree.  Second pass over the positions of g that
\* are not Correct, left to right: Misplaced iff a position of a that is not
\* Correct and not yet consumed holds the same letter, which is then consumed;
\* Wrong otherwise.
RECURSIVE TwoPassSecond(_, _, _, _, _)
TwoPassSecond(a, g, i, consumed, c) ==
  IF i > WordLen THEN c
  ELSE IF a[i] = g[i]
  THEN TwoPassSecond(a, g, i + 1, consumed, c)
  ELSE LET free == {k \in Positions : /\ a[k] # g[k]
                                       /\ k \notin consumed
                                       /\ a[k] = g[i]}
       IN IF free = {}
          THEN TwoPassSecond(a, g, i + 1, consumed, c)
          ELSE TwoPassSecond(a, g, i + 1, consumed \cup {Min(free)},
                             [c EXCEPT ![i] = Misplaced])

TwoPass(a, g) ==
  TwoPassSecond(a, g, 1, {},
                [k \in Positions |-> IF a[k] = g[k] THEN Correct ELSE Wrong])

\* C1: the mask compute returns is the mask of the two-pass reference, at
\* every position, for every pair of words.
C1_ComputeIsTwoPass ==
  fnPc = "computed" => fnMask = TwoPass(fnAnswer, fnGuess)

\* C1 witness: a guess with a repeated letter of which one occurrence is
\* Correct, one Misplaced and one Wrong.
C1_Witness ==
  /\ fnPc = "computed"
  /\ \E i, j, k \in Positions :
       /\ fnGuess[i] = fnGuess[j] /\ fnGuess[j] = fnGuess[k]
       /\ fnMask[i] = Correct /\ fnMask[j] = Misplaced /\ fnMask[k] = Wrong

MarkedCount(g, mask, x) ==
  Cardinality({i \in Positions : g[i] = x /\ mask[i] \in {Correct, Misplaced}})

LetterCount(word, x) == Cardinality({i \in Positions : word[i] = x})

\* C7: for every letter, the guess positions holding it that are marked
\* Correct or Misplaced are no more than its occurrences in the answer.
C7_MarksWithinAnswerCount ==
  fnPc = "computed" =>
    \A x \in Alphabet :
      MarkedCount(fnGuess, fnMask, x) <= LetterCount(fnAnswer, x)

\* C7 witness: the guess holds a letter more often than the answer does, and
\* the marks on it, one of them Misplaced, use up the answer's occurrences.
C7_Witness ==
  /\ fnPc = "computed"
  /\ \E x \in Alphabet :
       /\ LetterCount(fnGuess, x) > LetterCount(fnAnswer, x)
       /\ MarkedCount(fnGuess, fnMask, x) = LetterCount(fnAnswer, x)
       /\ \E i \in Positions : fnGuess[i] = x /\ fnMask[i] = Misplaced

\* C8 as stated: the mask of the guess against the answer is the mask of the
\* answer against the guess.
C8_Original ==
  fnPc = "computed" => fnMask = compute(fnGuess, fnAnswer)

MisplacedOn(word, mask, x) ==
  Cardinality({i \in Positions : word[i] = x /\ mask[i] = Misplaced})

\* C8 amended: compute(A, G) and compute(G, A) are Correct at the same
\* positions and have, for every letter, equally many Misplaced marks on it;
\* the positions of the Misplaced marks can differ.
C8_SameCorrectSameMisplacedCounts ==
  fnPc = "computed" =>
    LET swapped == compute(fnGuess, fnAnswer)
    IN /\ \A i \in Positions : (fnMask[i] = Correct) <=> (swapped[i] = Correct)
       /\ \A x \in Alphabet :
            MisplacedOn(fnGuess, fnMask, x) = MisplacedOn(fnAnswer, swapped, x)

\* C8 witness: a pair whose two masks differ, with a Correct position.
C8_Witness ==
  /\ fnPc = "computed"
  /\ fnMask # compute(fnGuess, fnAnswer)
  /\ \E i \in Positions : fnMask[i] = Correct

\* ------------------------------------------------------------------------
\* Properties of the games
\* ------------------------------------------------------------------------

\* the words of a sequence of entries
WordsOf(entries) == {entries[k].word : k \in 1..Len(entries)}

\* the entries whose word, as the answer, gives the mask of entry h against
\* the word of h, in their order
KeptBy(entries, h) ==
  SelectSeq(entries, LAMBDA e : compute(e.word, h.word) = h.mask)

\* C2: a call of a built-in guess with a non-empty history replaces
\* remaining by the entries w of remaining with compute(w, last.word) =
\* last.mask, weights and relative order kept; with an empty history remaining
\* is left as it is.
C2_PruneByLastEntry ==
  [][(pc = "playing" /\ impl \in Implementations) =>
       IF history = <<>>
       THEN remaining' = remaining
       ELSE remaining' = KeptBy(remaining, history[Len(history)])]_vars

\* C2 witness: Cache has pruned twice and kept, of the sorted lexicon, entries
\* that were not neighbours.
C2_Witness ==
  /\ impl = "Cache"
  /\ Len(history) >= 2
  /\ Len(remaining) >= 2
  /\ \E k \in 1..(Len(remaining) - 1) : remaining[k + 1].idx > remaining[k].idx + 1

\* C3: with the answer in the lexicon, remaining never grows from one call of
\* a built-in guess to the next, and after every call that pruned it still
\* holds the answer.
C3_ShrinksAndKeepsAnswer ==
  [][(pc = "playing" /\ impl \in Implementations /\ answer \in WordleDictionary) =>
       /\ Len(remaining') <= Len(remaining)
       /\ history # <<>> => answer \in WordsOf(remaining')]_vars

\* C3 witness: a game on a lexicon answer where two prunings have left the
\* answer and another word.
C3_Witness ==
  /\ impl \in Implementations
  /\ pc = "playing"
  /\ answer \in WordleDictionary
  /\ Len(history) = 3
  /\ Len(remaining) = 2
  /\ answer \in WordsOf(remaining)

\* word w is consistent with every entry of the history h
ConsistentWithAll(w, h) ==
  \A k \in 1..Len(h) : compute(w, h[k].word) = h[k].mask

\* C4: after a call of a built-in guess, remaining holds exactly the lexicon
\* words consistent with every entry of the history the call was given.
C4_RemainingIsConsistentSet ==
  [][(pc = "playing" /\ impl \in Implementations) =>
       WordsOf(remaining') = {w \in WordleDictionary : ConsistentWithAll(w, history)}]_vars

\* C4 witness: the third call has returned the answer; a lexicon word
\* consistent with the later of the two entries it was given, and not with the
\* earlier one, is out of remaining.
C4_Witness ==
  /\ impl \in Implementations
  /\ pc = "returned"
  /\ result = Some(3)
  /\ Len(history) = 2
  /\ remaining # <<>>
  /\ \E w \in WordleDictionary :
       /\ compute(w, history[2].word) = history[2].mask
       /\ compute(w, history[1].word) # history[1].mask
       /\ w \notin WordsOf(remaining)

\* guess number j of the closure of the test
MockGuessAt(j) == IF j - 1 = mock.k THEN mock.hit ELSE mock.miss

\* the numbers j <= 32 of the guesses of the closure that equal the answer
MockMatches == {j \in 1..MaxTurns : MockGuessAt(j) = answer}

\* C5: play returns Some(k) exactly when guess number k is the first that
\* equals the answer and k <= 32, and None exactly when none of the first 32
\* does; the match is the last guess requested and it is not pushed on the
\* history.
C5_PlayReturnsFirstMatch ==
  /\ (pc = "returned" /\ result.tag = "Some") =>
        /\ lastGuess = answer
        /\ result.value = turn
        /\ result.value = Len(history) + 1
        /\ result.value <= MaxTurns
  /\ (pc = "returned" /\ result.tag = "None") =>
        /\ Len(history) = MaxTurns
        /\ turn = MaxTurns
  /\ pc = "playing" =>
        /\ result = Pending
        /\ Len(history) = turn - 1
        /\ turn <= MaxTurns
  /\ pc \in {"playing", "returned"} =>
        \A k \in 1..Len(history) : history[k].word # answer
  /\ (pc = "returned" /\ impl = "Mock") =>
        result = IF MockMatches = {} THEN None ELSE Some(Min(MockMatches))

\* C5 witness: the closure returns the answer in the last round the loop has
\* and play returns Some(32).
C5_Witness ==
  /\ impl = "Mock"
  /\ pc = "returned"
  /\ result = Some(MaxTurns)
  /\ Len(history) = MaxTurns - 1

\* the word with index r of the sorted lexicon of Cache
LexiconWord(r) == initial[r + 1].word

\* C6: every populated cell of the Cache table, at guess index g and
\* candidate index c, holds the radix-3 index of compute(word_c, word_g).
C6_CellsHoldMaskIndex ==
  impl = "Cache" =>
    \A g, c \in 0..(computes.dimension - 1) :
      LET v == computes.vec[g * computes.dimension + c + 1]
      IN v # EmptyCell => v = enumerate_mask(compute(LexiconWord(c), LexiconWord(g)))

\* C6 witness: in a second game, a populated cell whose pair of words has a
\* different mask when the two are exchanged, next to a cell still empty.
C6_Witness ==
  /\ impl = "Cache"
  /\ played >= 1
  /\ \E g, c \in 0..(computes.dimension - 1) :
       /\ computes.vec[g * computes.dimension + c + 1] # EmptyCell
       /\ compute(LexiconWord(c), LexiconWord(g)) # compute(LexiconWord(g), LexiconWord(c))
  /\ \E n \in 1..Len(computes.vec) : computes.vec[n] = EmptyCell

\* C9: with the answer and the seed in the lexicon, every call of a built-in
\* guess returns a word of the lexicon, after the first turn a word of
\* remaining, and the assertion of play on the dictionary does not fail.
C9_GuessesAreLexiconWords ==
  [][(/\ pc = "playing"
      /\ impl \in Implementations
      /\ answer \in WordleDictionary
      /\ Seed \in WordleDictionary) =>
       /\ panic' = PanicNone
       /\ lastGuess' \in WordleDictionary
       /\ history # <<>> => lastGuess' \in WordsOf(remaining')]_vars

\* C9 witness: a built-in guesser has returned a word that is neither the
\* seed nor the answer, out of a remaining of several words.
C9_Witness ==
  /\ impl \in Implementations
  /\ pc = "playing"
  /\ answer \in WordleDictionary
  /\ Len(history) >= 2
  /\ lastGuess \notin {Seed, answer}
  /\ lastGuess \in WordsOf(remaining)
  /\ Len(remaining) >= 3

\* C10: a guess that is no dictionary word ends play by the panic of the
\* assertion: play returns neither Some nor None, the guess is not compared
\* with the answer and nothing is pushed on the history.
C10_NonDictionaryGuessPanics ==
  (lastGuess # NoWord /\ lastGuess \notin WordleDictionary) =>
    /\ pc = "panicked"
    /\ panic = PanicNotInDictionary
    /\ result = Pending
    /\ Len(history) = turn - 1
    /\ \A k \in 1..Len(history) : history[k].word \in WordleDictionary

\* C10 witness: after dictionary guesses, the closure returns a word that is
\* no dictionary word and equals the answer, and play panics.
C10_Witness ==
  /\ pc = "panicked"
  /\ panic = PanicNotInDictionary
  /\ lastGuess = answer
  /\ Len(history) >= 2

\* C11: play terminates: the call of the guesser in round `turn` is call
\* number turn <= 32, and after it play has returned Some, or has panicked, or
\* goes on to call number turn + 1 <= 32, or, the call being number 32 and not
\* the answer, has returned None.
C11_AtMost32Calls ==
  [][pc = "playing" =>
       /\ turn <= MaxTurns
       /\ Len(history) = turn - 1
       /\ \/ pc' = "panicked"
          \/ pc' = "returned" /\ result' = Some(turn) /\ lastGuess' = answer
          \/ /\ pc' = "returned" /\ result' = None /\ lastGuess' # answer
             /\ turn = MaxTurns /\ Len(history') = MaxTurns
          \/ /\ pc' = "playing" /\ result' = Pending /\ lastGuess' # answer
             /\ turn' = turn + 1 /\ turn' <= MaxTurns]_vars

\* C11 witness: a closure that never returns the answer has been called 32
\* times and play has returned None.
C11_Witness ==
  /\ impl = "Mock"
  /\ mock.hit # answer /\ mock.miss # answer
  /\ pc = "returned"
  /\ result = None
  /\ turn = MaxTurns
  /\ Len(history) = MaxTurns

\* C12: the history given to call number k has k - 1 entries; a round either
\* leaves it as it is or appends (guess, compute(answer, guess)) for the guess
\* of that round, the earlier entries unchanged; a game starts with the empty
\* history.
C12_HistoryAppendOnly ==
  [][/\ pc = "playing" =>
          /\ Len(history) = turn - 1
          /\ \/ history' = history /\ pc' # "playing"
             \/ history' = Append(history,
                                  Guess(lastGuess', compute(answer, lastGuess')))
     /\ (pc = "idle" /\ pc' = "playing") => history' = <<>>]_vars

\* C12 witness: in the second game of a run, a history of two entries whose
\* second mask is not the mask with the roles of answer and guess exchanged.
C12_Witness ==
  /\ pc = "playing"
  /\ played >= 1
  /\ Len(history) = 2
  /\ history[2].mask # compute(history[2].word, answer)

\* C13: a call of a built-in guess with the empty history returns "tares"
\* and scores nothing: remaining, the table and the entropies are as before.
C13_SeedOnEmptyHistory ==
  [][(pc = "playing" /\ impl \in Implementations /\ history = <<>>) =>
       /\ lastGuess' = tares
       /\ panic' = PanicNone
       /\ remaining' = remaining
       /\ owned' = owned
       /\ computes' = computes
       /\ entropy' = entropy]_vars

\* C13 witness: the first call of the second game of Cache, with cells of the
\* table populated by the first game.
C13_Witness ==
  /\ impl = "Cache"
  /\ played >= 1
  /\ pc = "playing"
  /\ Len(history) = 1
  /\ history[1].word = tares
  /\ remaining = initial
  /\ \E n \in 1..Len(computes.vec) : computes.vec[n] # EmptyCell

\* the implementations whose remaining is a Cow over a static INITIAL
CowImplementations == {"Weight", "Cutoff", "Cache"}

\* C17: in Weight, Cutoff and Cache a remaining that is Cow::Borrowed is the
\* complete initial lexicon; the first pruning of a game makes remaining
\* Cow::Owned and it stays owned for the rest of the game; a call with the
\* empty history changes neither; and every game starts from the complete
\* initial lexicon, borrowed.
C17_CopyOnWrite ==
  [][(impl \in CowImplementations) =>
       /\ (pc = "playing" /\ owned = FALSE) => (remaining = initial)
       /\ (pc' = "playing" /\ owned' = FALSE) => (remaining' = initial')
       /\ (pc = "playing" /\ history # <<>>) => (owned' = TRUE)
       /\ (pc = "playing" /\ history = <<>>) =>
            (owned' = owned /\ remaining' = remaining)
       /\ (pc = "idle" /\ pc' = "playing") =>
            (owned' = FALSE /\ remaining' = initial')
       /\ (initial # NoInitial) => (initial' = initial)]_vars

\* C17 witness: the first game of the run has pruned its owned copy; the
\* guesser of the second game, after its first call, still borrows the
\* complete initial lexicon.
C17_Witness ==
  /\ impl \in CowImplementations
  /\ played >= 1
  /\ score >= 3
  /\ pc = "playing"
  /\ turn = 2
  /\ ~owned
  /\ remaining = initial

\* C19: the mask of a word against itself is Correct at every position.
C19_IdentityAllCorrect ==
  (fnPc = "computed" /\ fnAnswer = fnGuess) =>
    \A i \in Positions : fnMask[i] = Correct

\* C19 witness: compute has been called on a word and itself, a word with a
\* repeated letter and three different letters.
C19_Witness ==
  /\ fnPc = "computed"
  /\ fnAnswer = fnGuess
  /\ fnMask = [i \in Positions |-> Correct]
  /\ Cardinality({fnGuess[i] : i \in Positions}) = 3

\* C20: when the mask is Wrong at every position, no letter of the guess
\* occurs anywhere in the answer.
C20_AllWrongDisjoint ==
  (fnPc = "computed" /\ \A i \in Positions : fnMask[i] = Wrong) =>
    \A i, j \in Positions : fnGuess[i] # fnAnswer[j]

\* C20 witness: an all-Wrong mask for an answer of two letters and a guess
\* of the third.
C20_Witness ==
  /\ fnPc = "computed"
  /\ \A i \in Positions : fnMask[i] = Wrong
  /\ Cardinality({fnAnswer[i] : i \in Positions}) = 2

\* C18: matches of the entry (word A, mask P) on the candidate B is true
\* exactly when the mask of guess A against answer B, by the two-pass
\* reference, is P.
C18_MatchesCandidateAsAnswer ==
  fnPc = "matched" =>
    (fnMatch <=> (TwoPass(fnAnswer, fnGuess) = fnMask))

\* C18 witness: the entry's mask is the mask of guess B against answer A, not
\* that of guess A against answer B, and matches has returned false.
C18_Witness ==
  /\ fnPc = "matched"
  /\ fnMatch = FALSE
  /\ fnMask = compute(fnGuess, fnAnswer)
  /\ \E i \in Positions : fnMask[i] = Correct

\* the patterns whose terms enter the entropy of the candidate scored last
\* in a call that left `pats` in self.patterns: Cutoff iterates
\* self.patterns, the other strategies Correctness::patterns()
TermPatterns(i, pats) == IF i = "Cutoff" THEN pats ELSE CorrectnessPatterns

\* the position in `entries` of the candidate a call scores last
LastScored(i, entries, pats) ==
  IF i = "Cutoff"
  THEN CutoffLoop(entries, remaining_count(entries), 1, 0, CutoffStop(entries),
                  pats, {NoCandidate}, <<>>).scored
  ELSE Len(entries)

\* C15 as stated, for the candidate a call scores last: the per-pattern
\* totals that enter its entropy add up to the total weight of remaining.
C15_Original ==
  [][(/\ pc = "playing"
      /\ impl \in {"Unoptimised", "Allocs", "Weight", "Cutoff"}
      /\ history # <<>>
      /\ panic' = PanicNone) =>
       LET last == LastScored(impl, remaining', patterns)
           row == MaskRow(remaining', remaining'[last].word)
           pats == TermPatterns(impl, patterns')
       IN SeqSum([n \in 1..Len(pats) |->
                    in_pattern_total(remaining', row, pats[n])])
            = remaining_count(remaining')]_vars

\* the number of candidates the loop of Cutoff::guess or Cache::guess scored in
\* a call that left the pruned set rem, given the patterns it started with
ScoredCount(i, rem, pats, table, turns) ==
  IF i = "Cutoff"
  THEN CutoffLoop(rem, remaining_count(rem), 1, 0, CutoffStop(rem), pats,
                  {NoCandidate}, <<>>).scored
  ELSE CacheLoop(rem, 1, 0, CacheStop(rem), table, turns, RemainingEntropy(rem),
                 {NoCandidate}, <<>>).scored

\* remaining is in descending order of weight
FrequencyDescending(rem) ==
  \A k \in 1..(Len(rem) - 1) : rem[k].weight >= rem[k + 1].weight

\* C14: in Cutoff and Cache, a guess call on a non-empty history scores at most
\* max(remaining.len() / 3, floor) candidates, floor = 16 in Cutoff and 20 in
\* Cache, and the candidates it scores are the first ones of remaining, which
\* is in descending order of frequency.
C14_Original ==
  [][(/\ pc = "playing"
      /\ impl \in {"Cutoff", "Cache"}
      /\ history # <<>>
      /\ panic' = PanicNone
      /\ remaining' # <<>>) =>
       LET n == ScoredCount(impl, remaining', patterns, computes', Len(history))
           floor == IF impl = "Cutoff" THEN 16 ELSE 20
           cap == IF Len(remaining') \div 3 > floor
                  THEN Len(remaining') \div 3 ELSE floor
       IN /\ n <= cap
          /\ FrequencyDescending(remaining')]_vars

\* what the loops do: Cache stops at the cap, Cutoff one candidate behind it
C14_ScoredWithinCapPlusOne ==
  [][(/\ pc = "playing"
      /\ impl \in {"Cutoff", "Cache"}
      /\ history # <<>>
      /\ panic' = PanicNone
      /\ remaining' # <<>>) =>
       LET n == ScoredCount(impl, remaining', patterns, computes', Len(history))
       IN /\ impl = "Cache" => n = IF Len(remaining') < CacheStop(remaining')
                                   THEN Len(remaining') ELSE CacheStop(remaining')
          /\ impl = "Cutoff" => n = IF Len(remaining') < CutoffStop(remaining') + 1
                                    THEN Len(remaining')
                                    ELSE CutoffStop(remaining') + 1
          /\ FrequencyDescending(remaining')]_vars

\* ------------------------------------------------------------------------
\* Properties of the shared table
\* ------------------------------------------------------------------------

\* the tables a game for the answer of thread t can leave of `table` when it
\* is played by itself and makes the calls the thread makes
TableAfter(table, t) ==
  {game.computes :
     game \in {g \in CacheGame(NewGuesser("Cache", table, initial, CellLines),
                               lookups[t].answer, 1, <<>>) :
                 g.plan = lookups[t].plan}}

\* COMPUTES after the games of the threads have been played one after the
\* other by one thread
SequentialTable ==
  UNION {TableAfter(first, 2) : first \in TableAfter(FreshComputes(initial), 1)}

\* C16: a populated cell of the shared table keeps its value in every step;
\* every call of get_enumeration that returns, returns the value its cell
\* holds from then on; and when the games played at once are over, the table
\* is cell for cell the table a sequential run of the same games leaves, so
\* that every read returned the value of the sequential run.
C16_WriteOnceSameReads ==
  [][/\ Len(computes'.vec) >= Len(computes.vec)
     /\ \A n \in 1..Len(computes.vec) :
          computes.vec[n] # EmptyCell => computes'.vec[n] = computes.vec[n]
     /\ \A t \in DOMAIN lookups :
          lookups'[t].at = lookups[t].at + 1 =>
            /\ lookups'[t].got # EmptyCell
            /\ lookups'[t].got = computes'.vec[CellOf(t)]
     /\ (lookups' # <<>> /\ \A t \in DOMAIN lookups : lookups'[t].pc = "done") =>
          computes' \in SequentialTable]_vars

\* C16 witness: two threads in get_or_init of the same cell, one running the
\* initialiser and one waiting for it, while a thread has already read a cell
\* that the other one populated.
C16_Witness ==
  /\ lookups # <<>>
  /\ \E t, u \in DOMAIN lookups :
       /\ t # u
       /\ lookups[t].pc = "init"
       /\ lookups[u].pc = "wait"
       /\ CellOf(t) = CellOf(u)
       /\ lookups[t].answer # lookups[u].answer
       /\ lookups[u].got # EmptyCell

\* ------------------------------------------------------------------------
\* Properties of Correctness::patterns
\* ------------------------------------------------------------------------

\* C21: a call of Correctness::patterns() yields pairwise distinct patterns,
\* 243 of them when the iterator is exhausted, which are then all the masks
\* over {Correct, Misplaced, Wrong}; every later call yields the items of the
\* first call in the same order; and the items are, in order, the list the
\* strategies iterate.
C21_PatternsAreAllMasksInFixedOrder ==
  iter.pc # "off" =>
    LET items == {iter.out[k] : k \in 1..Len(iter.out)}
    IN /\ Cardinality(items) = Len(iter.out)
       /\ Len(iter.out) <= 243
       /\ iter.pc = "exhausted" =>
            /\ Len(iter.out) = 243
            /\ items = Masks
            /\ Cardinality(Masks) = 243
       /\ iter.call > 1 =>
            \A k \in 1..Len(iter.out) : iter.out[k] = iter.first[k]
       /\ \A k \in 1..Len(iter.out) : iter.out[k] = CorrectnessPatterns[k]

\* C21 witness: a second call of patterns() has been consumed to its end.
C21_Witness ==
  /\ iter.pc = "exhausted"
  /\ iter.call = 2
  /\ Len(iter.first) = 243
  /\ Len(iter.out) = 243

\* ------------------------------------------------------------------------
\* Properties of the driver
\* ------------------------------------------------------------------------

\* C22: score and played start at 0 and change only when a game has returned
\* Some(s), by s and by 1, s being the number of the round that matched; a
\* game that returned None after the 32 rounds changes neither, and the driver
\* is then back at the head of its loop with the answers left untouched.
C22_OnlySolvedGamesCount ==
  /\ score = 0
  /\ played = 0
  /\ [][/\ (score' # score \/ played' # played) =>
             /\ pc = "returned"
             /\ result.tag = "Some"
        /\ (pc = "returned" /\ result.tag = "Some") =>
             /\ played' = played + 1
             /\ score' = score + turn
             /\ result.value = turn
        /\ (pc = "returned" /\ result = None) =>
             /\ played' = played
             /\ score' = score
             /\ pc' = "idle"
             /\ todo' = todo
        /\ (pc = "idle" /\ todo # <<>>) =>
             /\ pc' = "playing"
             /\ answer' = Head(todo)]_vars

\* C22 witness: the driver after a game that used up the 32 rounds, nothing
\* counted, with another answer to play.
C22_Witness ==
  /\ impl = "Mock"
  /\ pc = "idle"
  /\ result = None
  /\ turn = 32
  /\ Len(history) = 32
  /\ played = 0
  /\ score = 0
  /\ todo # <<>>

\* ------------------------------------------------------------------------
\* Properties of the scoring loops
\* ------------------------------------------------------------------------

\* the candidates Cutoff scores, candidate k onwards, each over the patterns
\* the candidates before it have left: the entropy -sum, the bound of its
\* distance from the f64 value, and the candidate of the best-so-far update
RECURSIVE CutoffScoredFrom(_, _, _, _, _, _)
CutoffScoredFrom(rem, whole, k, i, stop, pats) ==
  IF k > Len(rem) THEN <<>>
  ELSE LET row == MaskRow(rem, rem[k].word)
           kept == SelectSeq(pats, LAMBDA p : in_pattern_total(rem, row, p) # 0)
           totals == <<>> \o [n \in 1..Len(kept) |->
                                in_pattern_total(rem, row, kept[n])]
       IN <<[entropy |-> NegSum(totals, whole),
             err |-> NegSumErr(totals, whole),
             cand |-> WeightCandidate(rem[k].word, rem[k].weight, totals, whole)]>>
            \o (IF Then(kept, i + 1 > stop) THEN <<>>
                ELSE CutoffScoredFrom(rem, whole, k + 1, i + 1, stop, kept))

\* the candidate a Cache call with `turns` entries in the history has for
\* entry k of rem
CacheCandidate(rem, k, table, turns) ==
  LET remaining_p == remaining_count(rem)
      scan == CacheScan(rem, 1, table, get_row(table, rem[k].idx), rem[k].word,
                        [n \in 0..(MAX_MASK_ENUM - 1) |-> 0])
      e_info == CacheNegSum(scan.totals, remaining_p)
  IN Candidate(rem[k].word,
               EScore(rem[k].weight, remaining_p, turns, RemainingEntropy(rem),
                      e_info),
               EScoreErr(rem),
               EScoreTerms(rem, rem[k].word, rem[k].weight, scan.totals))

\* the total weight of the words of rem that give the pattern p against the
\* word w, for every pattern some word gives, in the order of
\* Correctness::patterns()
TotalsAgainst(rem, w) ==
  LET row == <<>> \o [c \in 1..Len(rem) |-> compute(rem[c].word, w)]
      given == {row[c] : c \in 1..Len(rem)}
      pats == SelectSeq(CorrectnessPatterns, LAMBDA p : p \in given)
  IN <<>> \o [n \in 1..Len(pats) |->
               SeqSum([c \in 1..Len(rem) |->
                         IF row[c] = pats[n] THEN rem[c].weight ELSE 0])]

\* The candidates the loop of a guess call compares, in iteration order: for
\* the entropy strategies with the goodness, for Cache with the expected
\* score.  Unoptimised and Allocs iterate the map in the order ord.
ScoredCandidates(i, rem, pats, table, turns, ord) ==
  IF i \in {"Unoptimised", "Allocs"}
  THEN <<>> \o [k \in 1..Len(ord) |->
          CHOOSE c \in {Candidate(ord[k], NegSum(totals, whole),
                                  NegSumErr(totals, whole), totals)
                          : totals \in {TotalsAgainst(rem, ord[k])},
                            whole \in {remaining_count(rem)}} : TRUE]
  ELSE IF i = "Weight"
  THEN <<>> \o [k \in 1..Len(rem) |->
          WeightCandidate(rem[k].word, rem[k].weight,
                          PatternTotals(rem, rem[k].word, CorrectnessPatterns),
                          remaining_count(rem))]
  ELSE IF i = "Cutoff"
  THEN LET scored == CutoffScoredFrom(rem, remaining_count(rem), 1, 0,
                                      CutoffStop(rem), pats)
       IN <<>> \o [k \in 1..Len(scored) |-> scored[k].cand]
  ELSE <<>> \o [k \in 1..(IF Len(rem) < CacheStop(rem) THEN Len(rem)
                          ELSE CacheStop(rem)) |->
          CacheCandidate(rem, k, table, turns)]

\* the value of a is strictly better than the one of b: greater for the
\* entropy strategies, lower for Cache
Better(i, a, b) == IF i = "Cache" THEN Greater(b, a) ELSE Greater(a, b)

\* the positions that can be the first one of the best value: no candidate
\* is strictly better, and no candidate before it has the same value
FirstBest(i, cands) ==
  {k \in 1..Len(cands) :
     /\ \A m \in 1..Len(cands) : ~Better(i, cands[m], cands[k])
     /\ \A m \in 1..(k - 1) : ~SameValue(cands[m], cands[k])}

\* the implementations whose remaining is a HashMap
HashMapImplementations == {"Unoptimised", "Allocs"}

\* ord is an iteration order of the map with the entries rem: every word of
\* rem once
IsOrderOf(ord, rem) ==
  /\ Len(ord) = Len(rem)
  /\ {ord[k] : k \in 1..Len(ord)} = {rem[k].word : k \in 1..Len(rem)}

\* C23: a guess call of a built-in strategy on a non-empty history returns a
\* candidate it scored that no scored candidate is strictly better than
\* (goodness maximal; Cache: expected score minimal) and that is the first
\* one of its value in the order the loop iterates in: a later candidate
\* with the same value does not replace it.  Weight, Cutoff and Cache
\* iterate remaining as it lies; Unoptimised and Allocs iterate the map in
\* its bucket order, which is an order of the words left and, from the
\* first loop on, the order of the call before without the words removed.
C23_FirstBestIsReturned ==
  [][(/\ pc = "playing"
      /\ impl \in Implementations
      /\ history # <<>>
      /\ panic' = PanicNone) =>
       /\ impl \in HashMapImplementations =>
            /\ IsOrderOf(order', remaining')
            /\ order # NoOrder =>
                 order' = SelectSeq(order, LAMBDA w :
                                      \E k \in 1..Len(remaining') :
                                        remaining'[k].word = w)
       /\ \A cands \in {ScoredCandidates(impl, remaining', patterns, computes',
                                         Len(history), order')} :
            /\ cands # <<>>
            /\ impl \notin HashMapImplementations =>
                 \A k \in 1..Len(cands) : cands[k].word = remaining'[k].word
            /\ \E k \in FirstBest(impl, cands) : lastGuess' = cands[k].word]_vars

\* C23 witness: an Unoptimised or Allocs call, not the first one that ran
\* the loop, returned a word although a candidate behind it in the
\* iteration order has the same goodness; no other word could have been
\* returned, and in remaining, which keeps the order of the file, the word
\* returned lies behind the other one.
C23_Witness ==
  /\ impl \in HashMapImplementations
  /\ Len(history) >= 3 \/ (result.tag = "Some" /\ Len(history) = 2)
  /\ panic = PanicNone
  /\ remaining # <<>>
  /\ IsOrderOf(order, remaining)
  /\ LET cands == ScoredCandidates(impl, remaining, patterns, computes,
                                   Len(history), order)
     IN \E k, m \in 1..Len(order) :
          /\ k < m
          /\ order[k] = lastGuess
          /\ SameValue(cands[k], cands[m])
          /\ FirstBest(impl, cands) = {k}
          /\ \E a, b \in 1..Len(remaining) :
               /\ a < b
               /\ remaining[a].word = order[m]
               /\ remaining[b].word = order[k]

\* a Weight call returned a word although a candidate behind it in
\* remaining has the same goodness, and no other word could have been
\* returned
WeightTieKeepsFirst ==
  /\ impl = "Weight"
  /\ history # <<>>
  /\ panic = PanicNone
  /\ remaining # <<>>
  /\ LET cands == ScoredCandidates(impl, remaining, patterns, computes,
                                   Len(history), order)
     IN \E k, m \in 1..Len(remaining) :
          /\ k < m
          /\ remaining[k].word = lastGuess
          /\ SameValue(cands[k], cands[m])
          /\ FirstBest(impl, cands) = {k}

\* The entropy and the goodness of every candidate an entropy strategy scores
\* in a call that left the pruned set rem: -sum over the patterns with the
\* bound of its distance from the f64 value, and p_word * -sum (Unoptimised
\* and Allocs take the entropy as goodness).
ScoredEntropies(i, rem, pats) ==
  IF i = "Cutoff"
  THEN LET scored == CutoffScoredFrom(rem, remaining_count(rem), 1, 0,
                                      CutoffStop(rem), pats)
       IN <<>> \o [k \in 1..Len(scored) |->
                     [entropy |-> scored[k].entropy, err |-> scored[k].err,
                      goodness |-> scored[k].cand.goodness]]
  ELSE <<>> \o [k \in 1..Len(rem) |->
          CHOOSE e \in UNION {
            {[entropy |-> sum,
              err |-> NegSumErr(totals, whole),
              goodness |-> IF i = "Weight"
                           THEN WeightCandidate(rem[k].word, rem[k].weight, totals,
                                                whole).goodness
                           ELSE sum]
               : sum \in {NegSum(totals, whole)}}
            : totals \in {TotalsAgainst(rem, rem[k].word)},
              whole \in {remaining_count(rem)}} : TRUE]

\* the patterns the words of rem produce against the word w
PatternsAgainst(rem, w) == {compute(rem[c].word, w) : c \in 1..Len(rem)}

\* C24: for every candidate an entropy strategy scores, entropy and goodness
\* are >= 0, and the entropy is 0 (not above the bound of its distance from
\* the f64 value) only if all remaining words produce one and the same
\* pattern against the candidate.
C24_EntropyNonNegative ==
  [][(/\ pc = "playing"
      /\ impl \in {"Unoptimised", "Allocs", "Weight", "Cutoff"}
      /\ history # <<>>
      /\ panic' = PanicNone) =>
       \A scored \in {ScoredEntropies(impl, remaining', patterns)} :
         /\ scored # <<>>
         /\ \A k \in 1..Len(scored) :
              /\ scored[k].entropy >= 0
              /\ scored[k].goodness >= 0
              /\ scored[k].entropy <= scored[k].err =>
                   Cardinality(PatternsAgainst(remaining', remaining'[k].word)) = 1]_vars

\* C24 witness: a call has scored a candidate of entropy 0, the only word
\* left, after a call that scored candidates of positive entropy.
C24_Witness ==
  /\ impl \in {"Unoptimised", "Allocs", "Weight", "Cutoff"}
  /\ Len(history) >= 2
  /\ Len(remaining) = 1
  /\ lastGuess = remaining[1].word
  /\ ScoredEntropies(impl, remaining, patterns)[1].entropy = 0
  /\ result = Some(Len(history) + 1)

\* ------------------------------------------------------------------------
\* Properties of the running totals of Cache
\* ------------------------------------------------------------------------

\* the totals array Cache fills for candidate k of rem, reading the table
CacheTotals(rem, k, table) ==
  CacheScan(rem, 1, table, get_row(table, rem[k].idx), rem[k].word,
            [n \in 0..(MAX_MASK_ENUM - 1) |-> 0]).totals

\* the number of candidates Cache scores on rem
CacheScored(rem) == IF Len(rem) < CacheStop(rem) THEN Len(rem) ELSE CacheStop(rem)

\* totals is, slot by slot, the per-pattern sum of the pattern-iterating
\* strategies for the word w, and its slots add up to the remaining weight
TotalsArePatternSums(rem, w, totals) ==
  \A row \in {MaskRow(rem, w)} :
    /\ \A n \in 1..Len(CorrectnessPatterns) :
         LET p == CorrectnessPatterns[n]
             slot == totals[enumerate_mask(p)]
         IN /\ slot = in_pattern_total(rem, row, p)
            /\ slot # 0 =>
                 slot = SeqSum([c \in 1..Len(rem) |->
                                  IF compute(rem[c].word, w) = p
                                  THEN rem[c].weight ELSE 0])
    /\ SeqSum([n \in 1..MAX_MASK_ENUM |-> totals[n - 1]]) = remaining_count(rem)

\* C25: for every candidate W a Cache call scores, the totals array of the
\* single scan holds in slot index(P) the sum of the weights of the remaining
\* words c with compute(c, W) = P, which is the sum the pattern-iterating
\* strategies compute for P, and the slots add up to the remaining weight, so
\* that every remaining word went to exactly one slot.
C25_TotalsArePerPatternSums ==
  [][(/\ pc = "playing"
      /\ impl = "Cache"
      /\ history # <<>>
      /\ panic' = PanicNone) =>
       \A k \in 1..CacheScored(remaining') :
         \A totals \in {CacheTotals(remaining', k, computes)} :
           TotalsArePatternSums(remaining', remaining'[k].word, totals)]_vars

\* C25 witness: a Cache call has scored a candidate against which two of the
\* remaining words fall into one slot and another word into another slot.
C25_Witness ==
  /\ impl = "Cache"
  /\ history # <<>>
  /\ panic = PanicNone
  /\ \E k \in 1..Len(remaining) :
       LET totals == CacheTotals(remaining, k, computes)
       IN \E n, m \in 0..(MAX_MASK_ENUM - 1) :
            /\ n # m
            /\ totals[n] >= 2
            /\ totals[m] >= 1

\* ------------------------------------------------------------------------
\* Properties of the remaining set along a game
\* ------------------------------------------------------------------------

\* the words guessed so far in the game
GuessedWords(h) == {h[k].word : k \in 1..Len(h)}

\* C26: with a built-in strategy, a guess call on a non-empty history leaves
\* remaining strictly shorter than it found it and without the word of the
\* last history entry, the guess that did not win; and the word the call
\* returns is none of the words guessed before in the game.
C26_GuessIsPrunedNeverRepeated ==
  [][(pc = "playing" /\ impl \in Implementations /\ history # <<>>) =>
       /\ Len(remaining') < Len(remaining)
       /\ history[Len(history)].word \in WordsOf(remaining)
       /\ history[Len(history)].word \notin WordsOf(remaining')
       /\ GuessedWords(history) \cap WordsOf(remaining') = {}
       /\ panic' = PanicNone =>
            /\ lastGuess' \in WordsOf(remaining')
            /\ lastGuess' \notin GuessedWords(history)]_vars

\* C26 witness: a game in its fourth round: three different words were
\* guessed and pruned away, and words are left.
C26_Witness ==
  /\ impl \in Implementations
  /\ pc = "playing"
  /\ Len(history) = 3
  /\ Cardinality(GuessedWords(history)) = 3
  /\ remaining # <<>>
  /\ GuessedWords(history) \cap WordsOf(remaining) = {history[3].word}

\* C27: in a game on an answer of the lexicon, a guess call of a built-in
\* strategy with non-empty history finds remaining non-empty after its
\* pruning, with the answer in it; the loop scores at least one candidate and
\* the call returns a word of remaining instead of panicking at
\* best.unwrap().
C27_ScoringLoopHasACandidate ==
  [][(/\ pc = "playing"
      /\ impl \in Implementations
      /\ answer \in WordleDictionary
      /\ history # <<>>) =>
       /\ remaining' # <<>>
       /\ answer \in WordsOf(remaining')
       /\ panic' # PanicUnwrapNone
       /\ panic' = PanicNone => lastGuess' \in WordsOf(remaining')
       /\ impl \in {"Weight", "Cutoff", "Cache"} =>
            ScoredCandidates(impl, remaining', patterns, computes',
                             Len(history), order') # <<>>]_vars

\* C27 witness: a call that pruned remaining down to the answer alone and
\* returned it, the one candidate the loop scored.
C27_Witness ==
  /\ impl \in Implementations
  /\ answer \in WordleDictionary
  /\ Len(history) >= 2
  /\ panic = PanicNone
  /\ Len(remaining) = 1
  /\ remaining[1].word = answer
  /\ lastGuess = answer
  /\ history[Len(history)].word # answer

\* the pattern of a guess that equals the answer
AllCorrect == [k \in 1..WordLen |-> Correct]

\* the elements of a sequence
Elements(s) == {s[k] : k \in 1..Len(s)}

\* s is t with some elements left out, order kept (t has no element twice)
IsFiltered(s, t) == s = SelectSeq(t, LAMBDA p : p \in Elements(s))

\* C28: in Cutoff, a guess call with non-empty history finds self.patterns
\* non-empty and holding the all-Correct pattern, so the assertion passes;
\* the call only removes patterns from the list (no pattern comes back during
\* the game) and the all-Correct pattern is still in it when the call ends.
C28_AllCorrectStaysInPatterns ==
  [][(pc = "playing" /\ impl = "Cutoff" /\ history # <<>>) =>
       /\ patterns # <<>>
       /\ AllCorrect \in Elements(patterns)
       /\ panic' # PanicPatternsEmpty
       /\ IsFiltered(patterns', patterns)
       /\ AllCorrect \in Elements(patterns')]_vars

\* C28 witness: the fourth call of a Cutoff game: three calls have filtered
\* the list, which has lost patterns and kept the all-Correct one.
C28_Witness ==
  /\ impl = "Cutoff"
  /\ pc = "playing"
  /\ Len(history) = 3
  /\ panic = PanicNone
  /\ patternsOwned
  /\ Len(patterns) < Len(CorrectnessPatterns)
  /\ AllCorrect \in Elements(patterns)

\* the dictionary lines of the entries of INITIAL, in the order of INITIAL
InitialLines ==
  [k \in 1..Len(initial) |->
     CHOOSE line \in Elements(DICTIONARY) : line.word = initial[k].word]

\* the 0-based position of a lexicon word in INITIAL, the lexicon as the sort
\* by count, largest first, left it
RankOf(w) ==
  (CHOOSE k \in 1..Len(initial) : initial[k].word = w) - 1

\* C29: in a Cache game, at a guess call with non-empty history the word of
\* the last history entry is an entry of remaining as the call finds it, so
\* find(..).unwrap() succeeds, and the idx of that entry is the word's rank in
\* the lexicon sorted by count; a call that panics at an unwrap does so at
\* best.unwrap(), with every word pruned away.
C29_LastGuessFoundWithItsRank ==
  [][(pc = "playing" /\ impl = "Cache" /\ history # <<>>) =>
       \A w \in {history[Len(history)].word} :
         \A found \in {FindWord(remaining, w)} :
           /\ w = lastGuess
           /\ found # 0
           /\ w \in WordleDictionary
           /\ InitialLines \in SortByCountDesc(DICTIONARY)
           /\ remaining[found].idx = RankOf(w)
           /\ panic' = PanicUnwrapNone => remaining' = <<>>]_vars

\* C29 witness: a Cache call is about to look up its last guess in a set that
\* earlier calls have pruned: the entry is no longer at the position of its
\* rank.
C29_Witness ==
  /\ impl = "Cache"
  /\ pc = "playing"
  /\ Len(history) >= 2
  /\ LET found == FindWord(remaining, history[Len(history)].word)
     IN /\ found # 0
        /\ remaining[found].idx = RankOf(history[Len(history)].word)
        /\ remaining[found].idx # found - 1

\* ------------------------------------------------------------------------
\* Patterns compute cannot return
\* ------------------------------------------------------------------------

\* the positions of a mask that hold the mark c
MarkedAt(mask, c) == {i \in 1..WordLen : mask[i] = c}

\* four Correct and one Misplaced
FourCorrectOneMisplaced(mask) ==
  /\ Cardinality(MarkedAt(mask, Correct)) = WordLen - 1
  /\ Cardinality(MarkedAt(mask, Misplaced)) = 1

\* the set of the enumerated patterns
PatternSet == Elements(CorrectnessPatterns)

\* the enumerated patterns with four Correct and one Misplaced
FourCorrectOneMisplacedPatterns ==
  {p \in PatternSet : FourCorrectOneMisplaced(p)}

\* C30: compute(answer, guess) is one of the 243 enumerated patterns and
\* never one with exactly four Correct and one Misplaced, although the
\* enumeration holds such patterns (one per position of the Misplaced): the
\* masks compute can return are a strict subset of the enumeration.
C30_NoFourCorrectOneMisplaced ==
  /\ fnPc = "computed" =>
       /\ fnMask \in PatternSet
       /\ ~FourCorrectOneMisplaced(fnMask)
       /\ fnMask \notin FourCorrectOneMisplacedPatterns
  /\ Cardinality(FourCorrectOneMisplacedPatterns) = WordLen

\* C30 witness: guess and answer agree in four positions and the letter of
\* the guess in the fifth occurs in the answer, at a position that is taken:
\* the fifth mark is Wrong.
C30_Witness ==
  /\ fnPc = "computed"
  /\ \E i \in Positions :
       /\ MarkedAt(fnMask, Correct) = Positions \ {i}
       /\ fnMask[i] = Wrong
       /\ \E j \in Positions \ {i} : fnAnswer[j] = fnGuess[i]

====
